---- MODULE Spec2Model ----
(***************************************************************************)
(* A model of the document generators of micro-agent:                      *)
(*   src/tools/ppt_tools.py     generate_pptx_presentation and builders    *)
(*   src/tools/office_tools.py  generate_word_document,                    *)
(*                              generate_excel_document                    *)
(*                                                                         *)
(* Python dicts are functions with a domain of strings.  A Python str      *)
(* held where the code also accepts a dict is the one-key record           *)
(* [str |-> s]; a number held where the code expects a number is           *)
(* [num |-> n].  Lengths are integers in units of 1/60000 inch, so that    *)
(* every division by a column count of the layouts is exact.               *)
(***************************************************************************)
EXTENDS Integers, Sequences, FiniteSets, TLC

VARIABLES
    THEMES,      \* ppt_tools.THEMES, the module-level registry of presets
    workspace,   \* what get_workspace_path() returns ("" for None)
    files,       \* the files on disk: path -> what was written there
    pc,          \* per caller: "idle", "blocks" (in the loop), "chart"
    kind,        \* per caller: the generator its list is for
    args,        \* per caller: the block list object it passes (as it is now)
    orig,        \* per caller: that list as the caller built it
    settings,    \* per caller: the settings argument of the call
    file_path,   \* per caller: the file_path argument of the call
    theme,       \* per caller: the resolved theme of a presentation call
    doc,         \* per caller: the in-memory document of the call
    cursor,      \* per caller: number of blocks fully processed
    saves,       \* per caller: number of times the writer's save was invoked
    pending,     \* per caller: chart image path generated, not yet embedded
    charts,      \* per caller: chart image paths written by the call
    result,      \* per caller: what the last call returned or raised
    thName,      \* theme resolution alone: the theme name
    thOver,      \* theme resolution alone: the custom_colors map
    thOut,       \* theme resolution alone: the resolved theme
    cardList,    \* card grid alone: the cards supplied
    cardPos,     \* card grid alone: cards placed so far, [idx, row, col, card]
    cardGrid,    \* card grid alone: <<cols_count, rows_count>> chosen
    pureIn,      \* one function alone: [fn, its arguments]
    pureOut,     \* one function alone: [done] and, once called, its result
    tool         \* one call of execute_tool_call and its spinner thread

vars == <<THEMES, workspace, files, pc, kind, args, orig, settings, file_path,
          theme, doc, cursor, saves, pending, charts, result,
          thName, thOver, thOut, cardList, cardPos, cardGrid, pureIn, pureOut,
          tool>>

renderVars == <<THEMES, workspace, files, pc, kind, args, orig, settings,
                file_path, theme, doc, cursor, saves, pending, charts, result>>
themeVars == <<thName, thOver, thOut>>
cardVars == <<cardList, cardPos, cardGrid>>
pureVars == <<pureIn, pureOut>>

----------------------------------------------------------------------------
(* Bounds of the model *)

\* longest block list a caller passes
MaxBlocks == 2
\* largest number of cards on a cards slide
MaxCards == 8
\* largest number of stats on a stats slide
MaxStats == 6
\* largest number of steps on a timeline slide
MaxSteps == 5
\* largest number of extra stops handed to _apply_gradient_fill
MaxStops == 2
\* largest number of series of a chart
MaxSeries == 3
\* rows of a sheet
MaxRows == 3

Procs == {1, 2}

----------------------------------------------------------------------------
(* Python dict operations *)

\* d.get(k, default)
Get(d, k, default) == IF k \in DOMAIN d THEN d[k] ELSE default

\* d.setdefault(k, v): the dict afterwards
SetDefault(d, k, v) ==
    IF k \in DOMAIN d THEN d
    ELSE [x \in DOMAIN d \cup {k} |-> IF x = k THEN v ELSE d[x]]

\* d[k] = v: the dict afterwards
SetItem(d, k, v) == [x \in DOMAIN d \cup {k} |-> IF x = k THEN v ELSE d[x]]

\* {**a, **b}
DictMerge(a, b) ==
    [k \in DOMAIN a \cup DOMAIN b |-> IF k \in DOMAIN b THEN b[k] ELSE a[k]]

EmptyDict == [k \in {} |-> ""]

IsStr(v) == "str" \in DOMAIN v
IsNum(v) == "num" \in DOMAIN v

\* thousandths of an inch to model units
In(milli) == milli * 60

----------------------------------------------------------------------------
(* ppt_tools.py: THEMES, colour helpers, _get_theme *)

Preset(p, s, a, l, d, td, b, cb) ==
    [primary |-> p, secondary |-> s, accent |-> a, light |-> l, dark |-> d,
     text_dark |-> td, text_light |-> "#FFFFFF", bg |-> b,
     gradient_start |-> p, gradient_end |-> s,
     card_bg |-> "#FFFFFF", card_border |-> cb]

THEMES0 ==
    [ocean    |-> Preset("#1A5276", "#2980B9", "#3498DB", "#D6EAF8", "#0E2F44",
                         "#1C2833", "#F0F8FF", "#AED6F1"),
     forest   |-> Preset("#1E8449", "#27AE60", "#2ECC71", "#D5F5E3", "#0B3D1E",
                         "#1C2833", "#F0FFF0", "#ABEBC6"),
     sunset   |-> Preset("#C0392B", "#E74C3C", "#F39C12", "#FDEDEC", "#641E16",
                         "#1C2833", "#FFF5F0", "#F5B7B1"),
     royal    |-> Preset("#6C3483", "#8E44AD", "#BB8FCE", "#F4ECF7", "#3B1A5C",
                         "#1C2833", "#FAF0FF", "#D2B4DE"),
     midnight |-> Preset("#2C3E50", "#34495E", "#1ABC9C", "#EBF5FB", "#1B2631",
                         "#1C2833", "#F8F9FA", "#AEB6BF"),
     coral    |-> Preset("#E8725C", "#F09E8C", "#F7C59F", "#FFF0EB", "#8B3A2F",
                         "#2D2D2D", "#FFFAF8", "#F5C6BA"),
     tech     |-> Preset("#0D47A1", "#1565C0", "#42A5F5", "#E3F2FD", "#0A1929",
                         "#1A237E", "#F5F9FF", "#90CAF9"),
     elegant  |-> Preset("#2C2C2C", "#555555", "#C9A96E", "#F5F0E8", "#1A1A1A",
                         "#2C2C2C", "#FAFAF5", "#D5C4A1")]

\* the strings of the model on which int(c[i:i+2], 16) raises ValueError
NotHex == {"zz"}

\* _hex(color) returns (does not raise)
_hex(color) == color \notin NotHex

\* TLC's strings are atomic: the colour strings of the model with the
\* sequence of their characters, on which the string operations of the
\* colour helpers are computed
ColorText ==
    "" :> <<>>
    @@ "#FF0000" :> <<"#", "F", "F", "0", "0", "0", "0">>
    @@ "FF0000" :> <<"F", "F", "0", "0", "0", "0">>
    @@ "#EEEEEE" :> <<"#", "E", "E", "E", "E", "E", "E">>
    @@ "EEEEEE" :> <<"E", "E", "E", "E", "E", "E">>
    @@ "#FFF" :> <<"#", "F", "F", "F">>
    @@ "FFF" :> <<"F", "F", "F">>
    @@ "zz" :> <<"z", "z">>
    @@ "ff00aa" :> <<"f", "f", "0", "0", "a", "a">>
    @@ "#ff00aa" :> <<"#", "f", "f", "0", "0", "a", "a">>
    @@ "Red" :> <<"R", "e", "d">>
    @@ "RED" :> <<"R", "E", "D">>
    @@ " red " :> <<" ", "r", "e", "d", " ">>
    @@ "DarkBlue" :> <<"D", "a", "r", "k", "B", "l", "u", "e">>
    @@ "zzzzzz" :> <<"z", "z", "z", "z", "z", "z">>
    @@ "#zzzzzz" :> <<"#", "z", "z", "z", "z", "z", "z">>
    @@ "12345" :> <<"1", "2", "3", "4", "5">>
    @@ "#1234567" :> <<"#", "1", "2", "3", "4", "5", "6", "7">>
    @@ "1234567" :> <<"1", "2", "3", "4", "5", "6", "7">>
    @@ "4472C4" :> <<"4", "4", "7", "2", "C", "4">>
    @@ "FFFFFF" :> <<"F", "F", "F", "F", "F", "F">>
    @@ "333333" :> <<"3", "3", "3", "3", "3", "3">>
    @@ "000000" :> <<"0", "0", "0", "0", "0", "0">>
    @@ "#FFFFFF" :> <<"#", "F", "F", "F", "F", "F", "F">>
    @@ "#000000" :> <<"#", "0", "0", "0", "0", "0", "0">>
    @@ "#7F7F7F" :> <<"#", "7", "F", "7", "F", "7", "F">>
    @@ "#7f7f7f" :> <<"#", "7", "f", "7", "f", "7", "f">>
    @@ "#1A2B3C" :> <<"#", "1", "A", "2", "B", "3", "C">>
    @@ "#80ff00" :> <<"#", "8", "0", "f", "f", "0", "0">>
    @@ "80ff00" :> <<"8", "0", "f", "f", "0", "0">>
    @@ "1A2B3C" :> <<"1", "A", "2", "B", "3", "C">>
    @@ "7F7F7F" :> <<"7", "F", "7", "F", "7", "F">>
    @@ "7f7f7f" :> <<"7", "f", "7", "f", "7", "f">>
    @@ "red" :> <<"r", "e", "d">>
    @@ "green" :> <<"g", "r", "e", "e", "n">>
    @@ "blue" :> <<"b", "l", "u", "e">>
    @@ "black" :> <<"b", "l", "a", "c", "k">>
    @@ "white" :> <<"w", "h", "i", "t", "e">>
    @@ "gray" :> <<"g", "r", "a", "y">>
    @@ "grey" :> <<"g", "r", "e", "y">>
    @@ "orange" :> <<"o", "r", "a", "n", "g", "e">>
    @@ "purple" :> <<"p", "u", "r", "p", "l", "e">>
    @@ "yellow" :> <<"y", "e", "l", "l", "o", "w">>
    @@ "navy" :> <<"n", "a", "v", "y">>
    @@ "teal" :> <<"t", "e", "a", "l">>
    @@ "darkblue" :> <<"d", "a", "r", "k", "b", "l", "u", "e">>
    @@ "darkgreen" :> <<"d", "a", "r", "k", "g", "r", "e", "e", "n">>
    @@ "darkred" :> <<"d", "a", "r", "k", "r", "e", "d">>

\* int(x) of the quotient num/den: truncation towards zero
Trunc(num, den) == IF num >= 0 THEN num \div den ELSE 0 - ((0 - num) \div den)

\* lines 107-108 and 115-116: c = hex_color.lstrip('#') and the three
\* channels int(c[0:2], 16), int(c[2:4], 16), int(c[4:6], 16)
Channels(hex_color) ==
    LET chars == ColorText[hex_color]
        hashes == {i \in 0..Len(chars) : \A j \in 1..i : chars[j] = "#"}
        k == CHOOSE i \in hashes : \A j \in hashes : j <= i
        c == SubSeq(chars, k + 1, Len(chars))
        digit == <<"0", "1", "2", "3", "4", "5", "6", "7", "8", "9">>
        lower == <<"a", "b", "c", "d", "e", "f">>
        upper == <<"A", "B", "C", "D", "E", "F">>
        Val(ch) == IF \E v \in 1..10 : digit[v] = ch
                   THEN (CHOOSE v \in 1..10 : digit[v] = ch) - 1
                   ELSE IF \E v \in 1..6 : lower[v] = ch
                   THEN (CHOOSE v \in 1..6 : lower[v] = ch) + 9
                   ELSE (CHOOSE v \in 1..6 : upper[v] = ch) + 9
    IN  [i \in 1..3 |-> 16 * Val(c[2 * i - 1]) + Val(c[2 * i])]

\* f"#{r:02x}{g:02x}{b:02x}", as the sequence of its characters: each
\* channel in lowercase hexadecimal, with a minus sign when negative,
\* padded with zeros to two characters, longer when it needs more
RECURSIVE FormatHex(_)
FormatHex(rgb) ==
    LET hex == <<"0", "1", "2", "3", "4", "5", "6", "7", "8", "9",
                 "a", "b", "c", "d", "e", "f">>
        v == rgb[Len(rgb)]
        mag == IF v < 0 THEN 0 - v ELSE v
        low == <<hex[(mag % 16) + 1]>>
        mid == IF mag >= 16 THEN <<hex[((mag \div 16) % 16) + 1]>> ELSE <<>>
        top == IF mag >= 256 THEN <<hex[(mag \div 256) + 1]>> ELSE <<>>
        digits == top \o mid \o low
        field == IF v < 0 THEN <<"-">> \o digits
                 ELSE IF Len(digits) < 2 THEN <<"0">> \o digits
                 ELSE digits
    IN  IF Len(rgb) = 1 THEN <<"#">> \o field
        ELSE FormatHex(SubSeq(rgb, 1, Len(rgb) - 1)) \o field

\* _darken: int(channel * factor) per channel, formatted; the factor is
\* factor8 / 8, so that the floating-point product is exact
_darken(hex_color, factor8) ==
    LET rgb == Channels(hex_color)
    IN  FormatHex([i \in 1..3 |-> Trunc(rgb[i] * factor8, 8)])

\* _lighten: int(channel + (255 - channel) * factor) per channel
_lighten(hex_color, factor8) ==
    LET rgb == Channels(hex_color)
    IN  FormatHex([i \in 1..3 |->
                     Trunc(8 * rgb[i] + (255 - rgb[i]) * factor8, 8)])

_get_theme_fallbackOcean(reg, name) ==
    IF name \in DOMAIN reg THEN reg[name] ELSE reg["ocean"]

\* THEMES.get(name, THEMES["midnight"])
_get_theme(reg, name) ==
    IF name \in DOMAIN reg THEN reg[name] ELSE reg["midnight"]

ResolveTheme_presetWins(reg, name, custom_colors) ==
    IF custom_colors # EmptyDict
    THEN DictMerge(custom_colors, _get_theme(reg, name))
    ELSE _get_theme(reg, name)

\* generate_pptx_presentation: theme = _get_theme(theme_name), then
\* {**theme, **custom_colors} when custom_colors is not empty
ResolveTheme(reg, name, custom_colors) ==
    IF custom_colors # EmptyDict
    THEN DictMerge(_get_theme(reg, name), custom_colors)
    ELSE _get_theme(reg, name)

RegistryAfterResolve_inPlace(reg, name, custom_colors) ==
    IF custom_colors # EmptyDict
    THEN LET n == IF name \in DOMAIN reg THEN name ELSE "midnight"
         IN  [reg EXCEPT ![n] = DictMerge(reg[n], custom_colors)]
    ELSE reg

\* the registry after the theme has been resolved: the merge builds a new
\* dict and the preset object is left as it was
RegistryAfterResolve(reg, name, custom_colors) == reg

----------------------------------------------------------------------------
(* ppt_tools.py: drawing calls against the presentation writer.            *)
(* A presentation is the sequence of its slides, a slide the sequence of   *)
(* the drawing calls made on it.  A builder threads a run record           *)
(*   [prs, blk, ok, ws, fs]                                                *)
(* prs the presentation so far, blk the caller's block as it is now, ok    *)
(* FALSE once a call has raised (what follows is then not executed), ws    *)
(* the workspace path and fs the set of paths that exist on disk.          *)

Draw(op, x, y, w, h, color, color2, text, font_size, line_spacing) ==
    [op |-> op, x |-> x, y |-> y, w |-> w, h |-> h, color |-> color,
     color2 |-> color2, text |-> text, font_size |-> font_size,
     line_spacing |-> line_spacing, tint |-> ""]

\* a drawing call whose colour is _lighten(color, f) or _darken(color, f):
\* the call is recorded with the base colour and the transform applied
Tint(d, transform) == [d EXCEPT !.tint = transform]

\* the drawing call raises: _hex on one of its colours fails
Raises(d) ==
    \/ d.op \in {"bg", "bg_gradient", "rounded_rect", "oval", "bar", "shape",
                 "text", "bullet", "table"} /\ ~_hex(d.color)
    \/ d.op \in {"bg_gradient", "rounded_rect", "oval", "shape"}
       /\ d.color2 # "" /\ ~_hex(d.color2)

Emit(st, d) ==
    IF ~st.ok THEN st
    ELSE IF Raises(d) THEN [st EXCEPT !.ok = FALSE]
    ELSE [st EXCEPT !.prs[Len(st.prs)] = Append(@, d)]

RECURSIVE EmitFrom(_, _, _)
EmitFrom(st, ds, i) ==
    IF i > Len(ds) THEN st
    ELSE LET rest(s1) == IF s1.ok THEN EmitFrom(s1, ds, i + 1) ELSE s1
         IN  rest(Emit(st, ds[i]))

EmitAll(st, ds) == EmitFrom(st, ds, 1)

\* prs.slides.add_slide(prs.slide_layouts[6])
AddSlide(st) == IF st.ok THEN [st EXCEPT !.prs = Append(@, <<>>)] ELSE st

\* a write to the caller's block (a setdefault on one of its nested dicts)
Mutate(st, blk) == IF st.ok THEN [st EXCEPT !.blk = blk] ELSE st

_apply_bg_solid(color) == Draw("bg", 0, 0, 0, 0, color, "", "", 0, 0)

_apply_bg_gradient(color_start, color_end) ==
    Draw("bg_gradient", 0, 0, 0, 0, color_start, color_end, "", 0, 0)

\* _apply_gradient_fill: the <a:gs> children of the fill's gsLst after
\* the call, each [pos, color] with pos in 1/1000 percent as written to
\* the XML (position 0.0 is 0, position 1.0 is 100000).  gs_lst is what
\* the lookup of the gsLst element at lines 153-161 gives in the
\* library: "found" (the element) or "raises".  The extra stops are
\* appended after the two base stops, in the order given.
_apply_gradient_fill(color_start, color_end, extra_stops, gs_lst) ==
    LET base == <<[pos |-> 0, color |-> color_start],
                  [pos |-> 100000, color |-> color_end]>>
    IN  IF ~_hex(color_start) THEN [ok |-> FALSE, stops |-> <<>>]
        ELSE IF ~_hex(color_end)
        THEN [ok |-> FALSE, stops |-> SubSeq(base, 1, 1)]
        ELSE IF extra_stops = <<>> THEN [ok |-> TRUE, stops |-> base]
        ELSE IF gs_lst = "raises" THEN [ok |-> FALSE, stops |-> base]
        ELSE [ok |-> TRUE,
              stops |-> base \o
                  [i \in 1..Len(extra_stops) |->
                     [pos |-> extra_stops[i].pos * 1000,
                      color |-> extra_stops[i].color]]]

_add_rounded_rect(left, top, width, height, fill_color, border_color) ==
    Draw("rounded_rect", left, top, width, height, fill_color, border_color,
         "", 0, 0)

_add_circle(left, top, size, fill_color, border_color) ==
    Draw("oval", left, top, size, size, fill_color, border_color, "", 0, 0)

_add_decorative_bar(x, y, w, h, color) ==
    Draw("bar", x, y, w, h, color, "", "", 0, 0)

\* _add_text_box with _add_text_to_frame: the text box, then one run for
\* "text", or one run per item of "bullets"; font_size defaults to 18,
\* color to "#333333", line_spacing to 1.2 (held in tenths)
_add_text_box(left, top, width, height, text_config) ==
    LET fsz == Get(text_config, "font_size", 18)
        col == Get(text_config, "color", "#333333")
        lsp == Get(text_config, "line_spacing", 12)
        box == Draw("textbox", left, top, width, height, "", "", "", 0, 0)
    IN  IF "text" \in DOMAIN text_config
        THEN <<box, Draw("text", left, top, width, height, col, "",
                         text_config["text"], fsz, lsp)>>
        ELSE IF "bullets" \in DOMAIN text_config
        THEN <<box>> \o
             [i \in 1..Len(text_config["bullets"]) |->
                Draw("bullet", left, top, width, height, col, "",
                     "*  " \o text_config["bullets"][i], fsz, lsp)]
        ELSE <<box>>

TextCfg(text, font_size, color) ==
    [text |-> text, font_size |-> font_size, color |-> color]

_add_slide_footer_nextPage(st, th) ==
    EmitAll(st,
        <<_add_decorative_bar(0, In(7200), In(13333), In(40), th["accent"])>>
        \o _add_text_box(In(12200), In(7000), In(800), In(300),
               TextCfg(ToString(Len(st.prs) + 1), 10,
                       Get(th, "secondary", "#888888"))))

\* _add_slide_footer: the accent bar and the slide number len(prs.slides)
_add_slide_footer(st, th) ==
    EmitAll(st,
        <<_add_decorative_bar(0, In(7200), In(13333), In(40), th["accent"])>>
        \o _add_text_box(In(12200), In(7000), In(800), In(300),
               TextCfg(ToString(Len(st.prs)), 10,
                       Get(th, "secondary", "#888888"))))

\* the title bar every titled builder draws first: background, bar
\* rectangle, title text and accent underline
TitleBar(st, slide_data, th) ==
    EmitAll(st,
        <<_apply_bg_solid(Get(th, "bg", "#FFFFFF")),
          _add_rounded_rect(0, 0, In(13333), In(1100), th["primary"], "")>>
        \o _add_text_box(In(800), In(150), In(11000), In(800),
               TextCfg(Get(slide_data, "title", ""), 26, th["text_light"]))
        \o <<_add_decorative_bar(In(800), In(1050), In(3000), In(40),
                                 th["accent"])>>)

\* Python truth of a str-or-dict value
Truthy(v) == v # EmptyDict /\ v # [str |-> ""]

\* `v if isinstance(v, dict) else {"text": str(v)}`
AsTextCfg(v) == IF IsStr(v) THEN [text |-> v["str"]] ELSE v

----------------------------------------------------------------------------
(* ppt_tools.py: the slide builders *)

Run0(prs, slide_data, ws, fs) ==
    [prs |-> prs, blk |-> slide_data, ok |-> TRUE, ws |-> ws, fs |-> fs]

\* filter(None, [author, date]) is not empty
HasMeta(slide_data) ==
    Get(slide_data, "author", "") # "" \/ Get(slide_data, "date", "") # ""

\* "  |  ".join(filter(None, [author, date]))
MetaText(author, date) ==
    IF author # "" /\ date # "" THEN author \o "  |  " \o date
    ELSE IF author # "" THEN author ELSE date

_build_title_slide(prs, slide_data, th, ws, fs) ==
    LET s0 == AddSlide(Run0(prs, slide_data, ws, fs))
        s1 == EmitAll(s0,
                <<_apply_bg_gradient(th["gradient_start"], th["gradient_end"]),
                  Tint(_add_circle(In(10500), In(-1500), In(4000),
                                   th["accent"], ""), "lighten 0.2"),
                  Tint(_add_circle(In(-1500), In(5500), In(3500),
                                   th["primary"], ""), "darken 0.5"),
                  _add_decorative_bar(In(1500), In(3200), In(2500), In(60),
                                      th["accent"])>>
                \o _add_text_box(In(1500), In(1500), In(10000), In(1800),
                       TextCfg(Get(slide_data, "title", "Presentation Title"),
                               42, th["text_light"])))
        s2 == IF Get(slide_data, "subtitle", "") # ""
              THEN EmitAll(s1,
                       [i \in 1..2 |->
                          Tint(_add_text_box(In(1500), In(3500), In(9000),
                                   In(1000),
                                   TextCfg(slide_data["subtitle"], 20,
                                           th["text_light"]))[i],
                               IF i = 2 THEN "lighten 0.15" ELSE "")])
              ELSE s1
        s3 == IF HasMeta(slide_data)
              THEN EmitAll(s2,
                       [i \in 1..2 |->
                          Tint(_add_text_box(In(1500), In(5800), In(8000),
                                   In(500),
                                   TextCfg(MetaText(
                                               Get(slide_data, "author", ""),
                                               Get(slide_data, "date", "")),
                                           14, th["text_light"]))[i],
                               IF i = 2 THEN "lighten 0.3" ELSE "")])
              ELSE s2
    IN  Emit(s3, _add_decorative_bar(0, In(7250), In(13333), In(80),
                                     th["accent"]))

_build_section_slide(prs, slide_data, th, ws, fs) ==
    LET s0 == AddSlide(Run0(prs, slide_data, ws, fs))
        s1 == Emit(s0, Tint(_apply_bg_gradient(th["gradient_start"],
                                               th["gradient_end"]),
                            "color2 darken 0.8"))
        s2 == IF Get(slide_data, "section_number", "") # ""
              THEN EmitAll(s1,
                       [i \in 1..2 |->
                          Tint(_add_text_box(In(1000), In(1500), In(4000),
                                   In(3000),
                                   TextCfg(slide_data["section_number"], 96,
                                           th["accent"]))[i],
                               IF i = 2 THEN "lighten 0.15" ELSE "")])
              ELSE s1
        s3 == EmitAll(s2,
                _add_text_box(In(1500), In(3000), In(10000), In(2000),
                    TextCfg(Get(slide_data, "title", "Section Title"), 38,
                            th["text_light"])))
        s4 == IF Get(slide_data, "subtitle", "") # ""
              THEN EmitAll(s3,
                       <<_add_decorative_bar(In(1500), In(5000), In(2000),
                                             In(50), th["accent"])>>
                       \o [i \in 1..2 |->
                          Tint(_add_text_box(In(1500), In(5200), In(9000),
                                   In(800),
                                   TextCfg(slide_data["subtitle"], 18,
                                           th["text_light"]))[i],
                               IF i = 2 THEN "lighten 0.2" ELSE "")])
              ELSE s3
    IN  Emit(s4, _add_decorative_bar(0, In(7250), In(13333), In(80),
                                     th["accent"]))

\* _add_styled_table: nothing for empty data, else the table at
\* left/top/width (defaults 1, 2, 11 inches) and height rows * 0.5
_add_styled_table(table_config, th) ==
    LET data == Get(table_config, "data", <<>>)
    IN  IF data = <<>> \/ data[1] = <<>> THEN <<>>
        ELSE <<Draw("table",
                    In(Get(table_config, "left", 1000)),
                    In(Get(table_config, "top", 2000)),
                    In(Get(table_config, "width", 11000)),
                    In(Get(table_config, "height", Len(data) * 500)),
                    Get(table_config, "header_bg", th["primary"]),
                    Get(th, "light", "#F5F5F5"), data, 12, 0)>>

\* _add_native_chart: the chart frame with its type, categories and series
\* _add_native_chart, lines 412-442: the chart type and the chart_data
\* object handed to slide.shapes.add_chart.  A scatter chart gets
\* XyChartData, each series the points zip(x_values, values); any other
\* chart gets CategoryChartData with the categories and every series.
ChartData(chart_config) ==
    LET Upper(t) ==
            CASE t = "pie" -> "PIE" [] t = "Pie" -> "PIE"
              [] t = "doughnut" -> "DOUGHNUT" [] t = "scatter" -> "SCATTER"
              [] t = "column" -> "COLUMN" [] t = "bar" -> "BAR"
              [] t = "line" -> "LINE" [] t = "area" -> "AREA"
              [] t = "stacked_bar" -> "STACKED_BAR"
              [] OTHER -> t
        chart_type_str == Upper(Get(chart_config, "chart_type", "column"))
        type_map ==
            [COLUMN |-> "COLUMN_CLUSTERED", COLUMN_STACKED |-> "COLUMN_STACKED",
             BAR |-> "BAR_CLUSTERED", BAR_STACKED |-> "BAR_STACKED",
             LINE |-> "LINE_MARKERS", LINE_SMOOTH |-> "LINE_MARKERS_STACKED",
             PIE |-> "PIE", DOUGHNUT |-> "DOUGHNUT", AREA |-> "AREA",
             AREA_STACKED |-> "AREA_STACKED", SCATTER |-> "XY_SCATTER"]
        series_data == Get(chart_config, "series", <<>>)
        Points(sr) ==
            LET x_vals == Get(sr, "x_values", <<>>)
                y_vals == IF "values" \in DOMAIN sr THEN sr["values"]
                          ELSE Get(sr, "y_values", <<>>)
                m == IF Len(x_vals) < Len(y_vals) THEN Len(x_vals)
                     ELSE Len(y_vals)
            IN  [i \in 1..m |-> <<x_vals[i], y_vals[i]>>]
    IN  [xl_type |-> Get(type_map, chart_type_str, "COLUMN_CLUSTERED"),
         categories |-> IF chart_type_str = "SCATTER" THEN <<>>
                        ELSE Get(chart_config, "categories", <<>>),
         series |->
            [i \in 1..Len(series_data) |->
               IF chart_type_str = "SCATTER"
               THEN [name |-> Get(series_data[i], "name", "Series"),
                     points |-> Points(series_data[i])]
               ELSE [name |-> Get(series_data[i], "name", "Series"),
                     values |-> Get(series_data[i], "values", <<>>)]]]

_add_native_chart(chart_config, left, top, width, height) ==
    <<Draw("chart", left, top, width, height, "", "",
           ChartData(chart_config), 0, 0)>>

\* os.path.join(workspace, path) for a relative path
JoinPath(ws, path) == ws \o "/" \o path

\* _add_element: text, shape, image, chart or table on a content slide
_add_element(st, elem, th) ==
    LET etype == Get(elem, "type", "text")
    IN  IF etype = "text"
        THEN EmitAll(st, _add_text_box(In(Get(elem, "left", 1000)),
                             In(Get(elem, "top", 2000)),
                             In(Get(elem, "width", 10000)),
                             In(Get(elem, "height", 1000)), elem))
        ELSE IF etype = "shape"
        THEN Emit(st, Draw("shape", In(Get(elem, "left", 1000)),
                           In(Get(elem, "top", 2000)),
                           In(Get(elem, "width", 3000)),
                           In(Get(elem, "height", 1000)),
                           Get(elem, "color", th["accent"]),
                           Get(elem, "border_color", ""), "", 0, 0))
        ELSE IF etype = "image"
        THEN IF JoinPath(IF st.ws = "" THEN "." ELSE st.ws,
                         Get(elem, "path", "")) \in st.fs
             THEN Emit(st, Draw("picture", In(Get(elem, "left", 1000)),
                                In(Get(elem, "top", 2000)),
                                In(Get(elem, "width", 5000)),
                                In(Get(elem, "height", 3000)), "", "",
                                Get(elem, "path", ""), 0, 0))
             ELSE st
        ELSE IF etype = "chart"
        THEN EmitAll(st, _add_native_chart(elem,
                             In(Get(elem, "left", 1000)),
                             In(Get(elem, "top", 2000)),
                             In(Get(elem, "width", 8000)),
                             In(Get(elem, "height", 4500))))
        ELSE IF etype = "table"
        THEN EmitAll(st, _add_styled_table(elem, th))
        ELSE st

RECURSIVE AddElements(_, _, _, _)
AddElements(st, elems, i, th) ==
    IF i > Len(elems) THEN st
    ELSE AddElements(_add_element(st, elems[i], th), elems, i + 1, th)

\* content_cfg.setdefault("font_size", ..), ("color", ..), ("line_spacing", ..)
\* on the dict the caller supplied; a str value is wrapped in a new dict
WithDefaults(v, font_size, color, line_spacing) ==
    LET c1 == SetDefault(AsTextCfg(v), "font_size", font_size)
        c2 == SetDefault(c1, "color", color)
    IN  IF line_spacing = 0 THEN c2
        ELSE SetDefault(c2, "line_spacing", line_spacing)

\* the block after the setdefault calls on slide_data[key]: a dict value has
\* gained the missing keys, a str value or an absent key leaves it as it was
ContentDefaults(slide_data, key, font_size, color, line_spacing) ==
    IF key \in DOMAIN slide_data /\ ~IsStr(slide_data[key])
    THEN [slide_data EXCEPT
            ![key] = WithDefaults(@, font_size, color, line_spacing)]
    ELSE slide_data

_build_content_slide(prs, slide_data, th, ws, fs) ==
    LET s0 == AddSlide(Run0(prs, slide_data, ws, fs))
        s1 == TitleBar(s0, slide_data, th)
        content == Get(slide_data, "content", EmptyDict)
        dark == Get(th, "text_dark", "#333333")
        s2 == IF Truthy(content)
              THEN EmitAll(
                     Mutate(s1, ContentDefaults(slide_data, "content", 18,
                                                dark, 15)),
                     _add_text_box(In(800), In(1400), In(11500), In(5200),
                                   WithDefaults(content, 18, dark, 15)))
              ELSE s1
        s3 == AddElements(s2, Get(slide_data, "elements", <<>>), 1, th)
    IN  _add_slide_footer(s3, th)

\* one column of _build_two_column_slide: the card, the optional column
\* title, the setdefault calls on the column's dict and its text box
TwoColumnSide(st, th, card_x, text_x, title_key, column_key) ==
    LET dark == Get(th, "text_dark", "#333333")
        col_title == Get(st.blk, title_key, "")
        column == Get(st.blk, column_key, EmptyDict)
        s1 == Emit(st, _add_rounded_rect(card_x, In(1500), In(5900), In(5200),
                                         th["card_bg"], th["card_border"]))
        s2 == IF col_title # ""
              THEN EmitAll(s1,
                     <<_add_decorative_bar(text_x, In(1700), In(1500), In(50),
                                           th["accent"])>>
                     \o _add_text_box(text_x, In(1850), In(5300), In(500),
                            TextCfg(col_title, 18, th["primary"])))
              ELSE s1
        s3 == Mutate(s2, ContentDefaults(s2.blk, column_key, 15, dark, 0))
    IN  EmitAll(s3,
            _add_text_box(text_x, IF col_title # "" THEN In(2500) ELSE In(1800),
                          In(5300), IF col_title # "" THEN In(3800) ELSE In(4500),
                          WithDefaults(column, 15, dark, 0)))

_build_two_column_slide(prs, slide_data, th, ws, fs) ==
    LET s0 == AddSlide(Run0(prs, slide_data, ws, fs))
        s1 == TitleBar(s0, slide_data, th)
        s2 == TwoColumnSide(s1, th, In(500), In(800), "left_title",
                            "left_column")
        s3 == TwoColumnSide(s2, th, In(6900), In(7200), "right_title",
                            "right_column")
    IN  _add_slide_footer(s3, th)

\* the block after the setdefault calls on slide_data[list_key][i][key]
ItemDefaults(slide_data, list_key, i, key, font_size, color, line_spacing) ==
    [slide_data EXCEPT
       ![list_key][i] = ContentDefaults(@, key, font_size, color, line_spacing)]

\* one iteration of the loop of _build_three_column_slide
ThreeColumnItem(st, th, i) ==
    LET col == st.blk["columns"][i]
        x == In(500) + (i - 1) * (In(3700) + In(450))
        icon == Get(col, "icon", "")
        col_title == Get(col, "title", "")
        title_top == IF icon = "" THEN In(2000) ELSE In(2700)
        content_top == title_top + In(600)
        dark == Get(th, "text_dark", "#333333")
        s1 == EmitAll(st,
                <<_add_rounded_rect(x, In(1500), In(3700), In(5200),
                                    th["card_bg"], th["card_border"]),
                  _add_decorative_bar(x + In(300), In(1700), In(1200), In(50),
                                      th["accent"])>>
                \o (IF icon # ""
                    THEN _add_text_box(x + In(300), In(1900), In(1000), In(800),
                                       TextCfg(icon, 28, th["primary"]))
                    ELSE <<>>)
                \o (IF col_title # ""
                    THEN _add_text_box(x + In(300), title_top,
                                       In(3700) - In(600), In(500),
                                       TextCfg(col_title, 16, th["primary"]))
                    ELSE <<>>))
        s2 == Mutate(s1, ItemDefaults(s1.blk, "columns", i, "content", 13,
                                      dark, 0))
    IN  EmitAll(s2,
            _add_text_box(x + In(300), content_top, In(3700) - In(600),
                          In(5200) - (content_top - In(1500)) + In(300),
                          WithDefaults(Get(col, "content", EmptyDict), 13,
                                       dark, 0)))

RECURSIVE ThreeColumnLoop(_, _, _, _)
ThreeColumnLoop(st, th, i, n) ==
    IF i > n THEN st ELSE ThreeColumnLoop(ThreeColumnItem(st, th, i), th, i + 1, n)

Min(a, b) == IF a < b THEN a ELSE b

_build_three_column_slide(prs, slide_data, th, ws, fs) ==
    LET s0 == AddSlide(Run0(prs, slide_data, ws, fs))
        s1 == TitleBar(s0, slide_data, th)
        n == Min(Len(Get(slide_data, "columns", <<>>)), 3)
    IN  _add_slide_footer(ThreeColumnLoop(s1, th, 1, n), th)

CardGridFor_fourInRow(n) ==
    IF n <= 4 THEN <<n, 1>>
    ELSE <<3, 2>>

\* _build_cards_slide: (cols_count, rows_count) for n cards
CardGridFor(n) ==
    IF n <= 3 THEN <<n, 1>>
    ELSE IF n <= 4 THEN <<2, 2>>
    ELSE IF n <= 6 THEN <<3, 2>>
    ELSE <<3, 2>>

CardsKept_all(cards) == cards

\* cards = cards[:6] when more than six are supplied
CardsKept(cards) == IF Len(cards) > 6 THEN SubSeq(cards, 1, 6) ELSE cards

\* row = idx // cols_count, col = idx % cols_count (idx from 0)
CardCell(idx, cols_count) == <<idx \div cols_count, idx % cols_count>>

\* one iteration of the loop of _build_cards_slide; i counts from 1
CardItem(st, th, i, grid) ==
    LET card == st.blk["cards"][i]
        card_w == (In(12300) - (grid[1] - 1) * In(350)) \div grid[1]
        total_h == IF grid[2] = 1 THEN In(5000) ELSE In(4800)
        card_h == (total_h - (grid[2] - 1) * In(350)) \div grid[2]
        cell == CardCell(i - 1, grid[1])
        cx == In(500) + cell[2] * (card_w + In(350))
        cy == In(1400) + cell[1] * (card_h + In(350))
        icon == Get(card, "icon", "")
        card_title == Get(card, "title", "")
        card_content == Get(card, "content", [str |-> ""])
        y1 == cy + In(300) + (IF icon # "" THEN In(550) ELSE 0)
        y2 == y1 + (IF card_title # "" THEN In(450) ELSE 0)
        dark == Get(th, "text_dark", "#555555")
        s1 == EmitAll(st,
                <<_add_rounded_rect(cx, cy, card_w, card_h, th["card_bg"],
                                    th["card_border"]),
                  _add_decorative_bar(cx + In(250), cy + In(150), In(800),
                                      In(40), th["accent"])>>
                \o (IF icon # ""
                    THEN _add_text_box(cx + In(250), cy + In(300), In(1000),
                                       In(600), TextCfg(icon, 22, th["primary"]))
                    ELSE <<>>)
                \o (IF card_title # ""
                    THEN _add_text_box(cx + In(250), y1, card_w - In(500),
                                       In(400),
                                       TextCfg(card_title, 14, th["primary"]))
                    ELSE <<>>))
    IN  IF Truthy(card_content)
        THEN EmitAll(
               Mutate(s1, ItemDefaults(s1.blk, "cards", i, "content", 12,
                                       dark, 13)),
               _add_text_box(cx + In(250), y2, card_w - In(500),
                             card_h - (y2 - cy) - In(200),
                             WithDefaults(card_content, 12, dark, 13)))
        ELSE s1

RECURSIVE CardLoop(_, _, _, _, _)
CardLoop(st, th, i, n, grid) ==
    IF i > n THEN st
    ELSE CardLoop(CardItem(st, th, i, grid), th, i + 1, n, grid)

_build_cards_slide(prs, slide_data, th, ws, fs) ==
    LET s0 == AddSlide(Run0(prs, slide_data, ws, fs))
        s1 == TitleBar(s0, slide_data, th)
        cards == Get(slide_data, "cards", <<>>)
        n == Len(CardsKept(cards))
    IN  IF n = 0 THEN _add_slide_footer(s1, th)
        ELSE _add_slide_footer(
                 CardLoop(s1, th, 1, n, CardGridFor(Len(cards))), th)

_build_chart_slide(prs, slide_data, th, ws, fs) ==
    LET s0 == AddSlide(Run0(prs, slide_data, ws, fs))
        s1 == TitleBar(s0, slide_data, th)
        chart_config == Get(slide_data, "chart", EmptyDict)
        description == Get(slide_data, "description", [str |-> ""])
        dark == Get(th, "text_dark", "#333333")
        s2 == IF Truthy(description)
              THEN EmitAll(
                     Mutate(
                       EmitAll(s1,
                         _add_native_chart(chart_config, In(500), In(1400),
                                           In(8000), In(5200))
                         \o <<_add_rounded_rect(In(8800), In(1500), In(4200),
                                  In(5000), th["card_bg"], th["card_border"])>>),
                       ContentDefaults(slide_data, "description", 14, dark, 14)),
                     _add_text_box(In(9000), In(1700), In(3800), In(4600),
                                   WithDefaults(description, 14, dark, 14)))
              ELSE EmitAll(s1,
                     _add_native_chart(chart_config, In(800), In(1400),
                                       In(11500), In(5300)))
    IN  _add_slide_footer(s2, th)

\* table_config.setdefault("left", 0.5), ("top", 1.5), ("width", 12.3) on
\* the caller's table dict (lengths held in thousandths of an inch)
TableDefaults(slide_data) ==
    IF "table" \in DOMAIN slide_data
    THEN [slide_data EXCEPT
            !["table"] = SetDefault(SetDefault(SetDefault(@, "left", 500),
                                               "top", 1500), "width", 12300)]
    ELSE slide_data

_build_table_slide(prs, slide_data, th, ws, fs) ==
    LET s0 == AddSlide(Run0(prs, slide_data, ws, fs))
        s1 == TitleBar(s0, slide_data, th)
        s2 == Mutate(s1, TableDefaults(slide_data))
        table_config == Get(TableDefaults(slide_data), "table",
                            [left |-> 500, top |-> 1500, width |-> 12300])
    IN  _add_slide_footer(EmitAll(s2, _add_styled_table(table_config, th)), th)

\* one iteration of the loop of _build_stats_slide; i counts from 1
StatItem(st, th, i, card_w) ==
    LET stat == st.blk["stats"][i]
        cx == In(500) + (i - 1) * (card_w + In(400))
        card_y == In(2200)
        icon == Get(stat, "icon", "")
        y1 == card_y + In(300) + (IF icon # "" THEN In(600) ELSE 0)
        y2 == y1 + In(1000)
        label == Get(stat, "label", "")
        desc == Get(stat, "description", "")
    IN  EmitAll(st,
            <<_add_rounded_rect(cx, card_y, card_w, In(3500), th["card_bg"],
                                th["card_border"]),
              _add_decorative_bar(cx, card_y, card_w, In(60), th["accent"])>>
            \o (IF icon # ""
                THEN _add_text_box(cx + In(200), card_y + In(300),
                                   card_w - In(400), In(600),
                                   TextCfg(icon, 24, th["accent"]))
                ELSE <<>>)
            \o _add_text_box(cx + In(200), y1, card_w - In(400), In(1000),
                             TextCfg(Get(stat, "value", "0"), 36, th["primary"]))
            \o (IF label # ""
                THEN _add_text_box(cx + In(200), y2, card_w - In(400), In(600),
                                   TextCfg(label, 14,
                                           Get(th, "text_dark", "#555555")))
                ELSE <<>>)
            \o (IF desc # ""
                THEN _add_text_box(cx + In(200), y2 + In(550),
                                   card_w - In(400), In(800),
                                   [text |-> desc, font_size |-> 11,
                                    color |-> "#888888", line_spacing |-> 12])
                ELSE <<>>))

RECURSIVE StatLoop(_, _, _, _, _)
StatLoop(st, th, i, n, card_w) ==
    IF i > n THEN st
    ELSE StatLoop(StatItem(st, th, i, card_w), th, i + 1, n, card_w)

_build_stats_slide_widthOfAll(prs, slide_data, th, ws, fs) ==
    LET s0 == AddSlide(Run0(prs, slide_data, ws, fs))
        s1 == TitleBar(s0, slide_data, th)
        n == Len(Get(slide_data, "stats", <<>>))
        card_w == (In(12300) - (n - 1) * In(400)) \div n
    IN  IF n = 0 THEN _add_slide_footer(s1, th)
        ELSE _add_slide_footer(StatLoop(s1, th, 1, Min(n, 5), card_w), th)

_build_stats_slide(prs, slide_data, th, ws, fs) ==
    LET s0 == AddSlide(Run0(prs, slide_data, ws, fs))
        s1 == TitleBar(s0, slide_data, th)
        n == Len(Get(slide_data, "stats", <<>>))
        card_w == IF n <= 5 THEN (In(12300) - (n - 1) * In(400)) \div n
                  ELSE (In(12300) - 4 * In(400)) \div 5
    IN  IF n = 0 THEN _add_slide_footer(s1, th)
        ELSE _add_slide_footer(StatLoop(s1, th, 1, Min(n, 5), card_w), th)

\* one iteration of the loop of _build_timeline_slide; i counts from 1
TimelineItem(st, th, i, step_width) ==
    LET step == st.blk["steps"][i]
        cx == In(800) + (i - 1) * step_width + step_width \div 2
        left == cx - step_width \div 2 + In(100)
        wide == step_width - In(200)
        time_label == Get(step, "time_label", "")
        desc == Get(step, "description", "")
        above == (i - 1) % 2 = 0
        Label(y) == IF time_label # ""
                    THEN _add_text_box(left, y, wide, In(400),
                                       TextCfg(time_label, 11, th["accent"]))
                    ELSE <<>>
        Title(y) == _add_text_box(left, y, wide, In(500),
                        TextCfg(Get(step, "title", ""), 14, th["primary"]))
        Desc(y) == IF desc # ""
                   THEN _add_text_box(left, y, wide, In(1200),
                            [text |-> desc, font_size |-> 11,
                             color |-> Get(th, "text_dark", "#555555"),
                             line_spacing |-> 12])
                   ELSE <<>>
    IN  EmitAll(st,
            <<_add_circle(cx - In(200), In(3800) - In(200) + In(20), In(400),
                          th["accent"], th["primary"])>>
            \o _add_text_box(cx - In(200), In(3800) - In(200) + In(20),
                             In(400), In(400),
                             TextCfg(ToString(i), 12, th["text_light"]))
            \o (IF above
                THEN Label(In(1500)) \o Title(In(1900)) \o Desc(In(2400))
                ELSE Title(In(4200)) \o Label(In(4700)) \o Desc(In(5100))))

RECURSIVE TimelineLoop(_, _, _, _, _)
TimelineLoop(st, th, i, n, step_width) ==
    IF i > n THEN st
    ELSE LET rest(s1) == IF s1.ok
                         THEN TimelineLoop(s1, th, i + 1, n, step_width)
                         ELSE s1
         IN  rest(TimelineItem(st, th, i, step_width))

_build_timeline_slide_extraStep(prs, slide_data, th, ws, fs) ==
    LET s0 == AddSlide(Run0(prs, slide_data, ws, fs))
        s1 == TitleBar(s0, slide_data, th)
        n == Len(Get(slide_data, "steps", <<>>))
    IN  IF n = 0 THEN _add_slide_footer(s1, th)
        ELSE _add_slide_footer(
                 TimelineLoop(
                     Emit(s1, _add_decorative_bar(In(800), In(3800), In(11700),
                                                  In(40), th["secondary"])),
                     th, 1, n, In(11700) \div (n + 1)), th)

_build_timeline_slide_lineFirst(prs, slide_data, th, ws, fs) ==
    LET s0 == AddSlide(Run0(prs, slide_data, ws, fs))
        s1 == Emit(TitleBar(s0, slide_data, th),
                   _add_decorative_bar(In(800), In(3800), In(11700), In(40),
                                       th["secondary"]))
        n == Len(Get(slide_data, "steps", <<>>))
    IN  IF n = 0 THEN _add_slide_footer(s1, th)
        ELSE _add_slide_footer(
                 TimelineLoop(s1, th, 1, n, In(11700) \div n), th)

_build_timeline_slide(prs, slide_data, th, ws, fs) ==
    LET s0 == AddSlide(Run0(prs, slide_data, ws, fs))
        s1 == TitleBar(s0, slide_data, th)
        n == Len(Get(slide_data, "steps", <<>>))
    IN  IF n = 0 THEN _add_slide_footer(s1, th)
        ELSE _add_slide_footer(
                 TimelineLoop(
                     Emit(s1, _add_decorative_bar(In(800), In(3800), In(11700),
                                                  In(40), th["secondary"])),
                     th, 1, n, In(11700) \div n), th)

_build_image_slide_noExistsCheck(prs, slide_data, th, ws, fs) ==
    LET s0 == AddSlide(Run0(prs, slide_data, ws, fs))
        s1 == TitleBar(s0, slide_data, th)
        img_path == Get(slide_data, "image_path", "")
        s2 == IF img_path # ""
              THEN IF JoinPath(ws, img_path) \in fs
                   THEN Emit(s1, Draw("picture", In(1500), In(1500), In(10000),
                                      In(5000), "", "", img_path, 0, 0))
                   ELSE [s1 EXCEPT !.ok = FALSE]
              ELSE s1
    IN  _add_slide_footer(s2, th)

_build_image_slide(prs, slide_data, th, ws, fs) ==
    LET s0 == AddSlide(Run0(prs, slide_data, ws, fs))
        s1 == TitleBar(s0, slide_data, th)
        img_path == Get(slide_data, "image_path", "")
        description == Get(slide_data, "description", [str |-> ""])
        caption == Get(slide_data, "caption", "")
        dark == Get(th, "text_dark", "#333333")
        s2 == IF img_path # "" /\ JoinPath(ws, img_path) \in fs
              THEN IF Truthy(description)
                   THEN EmitAll(
                          Mutate(
                            Emit(s1, Draw("picture", In(800), In(1500),
                                          In(7500), In(5000), "", "",
                                          img_path, 0, 0)),
                            ContentDefaults(slide_data, "description", 14,
                                            dark, 0)),
                          _add_text_box(In(8800), In(1500), In(4000), In(5000),
                                        WithDefaults(description, 14, dark, 0)))
                   ELSE Emit(s1, Draw("picture", In(1500), In(1500), In(10000),
                                      In(5000), "", "", img_path, 0, 0))
              ELSE s1
        s3 == IF caption # ""
              THEN EmitAll(s2, _add_text_box(In(800), In(6500), In(11500),
                                   In(500), TextCfg(caption, 12, "#888888")))
              ELSE s2
    IN  _add_slide_footer(s3, th)

\* one side of _build_comparison_slide
ComparisonSide(st, th, card_x, text_x, side_color, side_title, items) ==
    EmitAll(st,
        <<_add_rounded_rect(card_x, In(1500), In(5900), In(5200),
                            th["card_bg"], side_color),
          _add_decorative_bar(card_x, In(1500), In(5900), In(60), side_color)>>
        \o _add_text_box(text_x, In(1700), In(5300), In(600),
                         TextCfg(side_title, 20, side_color))
        \o (IF items # <<>>
            THEN _add_text_box(text_x, In(2500), In(5300), In(3800),
                     [bullets |-> items, font_size |-> 14,
                      color |-> Get(th, "text_dark", "#333333"),
                      line_spacing |-> 15])
            ELSE <<>>))

_build_comparison_slide(prs, slide_data, th, ws, fs) ==
    LET s0 == AddSlide(Run0(prs, slide_data, ws, fs))
        s1 == TitleBar(s0, slide_data, th)
        s2 == ComparisonSide(s1, th, In(500), In(800),
                  Get(slide_data, "left_color", th["primary"]),
                  Get(slide_data, "left_title", "Option A"),
                  Get(slide_data, "left_items", <<>>))
        s3 == EmitAll(s2,
                <<_add_circle(In(6100), In(3500), In(800), th["secondary"], "")>>
                \o _add_text_box(In(6100), In(3500), In(800), In(800),
                                 TextCfg("VS", 14, th["text_light"])))
        s4 == ComparisonSide(s3, th, In(6900), In(7200),
                  Get(slide_data, "right_color", th["accent"]),
                  Get(slide_data, "right_title", "Option B"),
                  Get(slide_data, "right_items", <<>>))
    IN  _add_slide_footer(s4, th)

\* a text box whose run colour is _lighten(color, f)
LightText(left, top, width, height, text, font_size, color, transform) ==
    [i \in 1..2 |->
       Tint(_add_text_box(left, top, width, height,
                          TextCfg(text, font_size, color))[i],
            IF i = 2 THEN transform ELSE "")]

_build_quote_slide(prs, slide_data, th, ws, fs) ==
    LET s0 == AddSlide(Run0(prs, slide_data, ws, fs))
        author == Get(slide_data, "author", "")
        s1 == EmitAll(s0,
                <<_apply_bg_gradient(th["gradient_start"], th["gradient_end"])>>
                \o LightText(In(1000), In(1200), In(3000), In(2000), "\"", 120,
                             th["accent"], "lighten 0.2")
                \o _add_text_box(In(2000), In(2500), In(9500), In(3000),
                       [text |-> Get(slide_data, "quote",
                                     Get(slide_data, "text", "")),
                        font_size |-> 28, color |-> th["text_light"],
                        line_spacing |-> 15]))
        s2 == IF author # ""
              THEN EmitAll(s1,
                     <<_add_decorative_bar(In(5500), In(5500), In(2000), In(40),
                                           th["accent"])>>
                     \o LightText(In(2000), In(5700), In(9500), In(600),
                                  "- " \o author, 18, th["text_light"],
                                  "lighten 0.2"))
              ELSE s1
    IN  Emit(s2, _add_decorative_bar(0, In(7250), In(13333), In(80),
                                     th["accent"]))

_build_ending_slide(prs, slide_data, th, ws, fs) ==
    LET s0 == AddSlide(Run0(prs, slide_data, ws, fs))
        subtitle == Get(slide_data, "subtitle", "")
        contact == Get(slide_data, "contact", "")
        s1 == EmitAll(s0,
                <<_apply_bg_gradient(th["gradient_start"], th["gradient_end"]),
                  Tint(_add_circle(In(10000), In(-1000), In(3500),
                                   th["accent"], ""), "lighten 0.15"),
                  Tint(_add_circle(In(-1000), In(5000), In(3000),
                                   th["primary"], ""), "darken 0.5")>>
                \o _add_text_box(In(1000), In(2000), In(11300), In(2500),
                       TextCfg(Get(slide_data, "title",
                                   Get(slide_data, "text", "Thank You")),
                               48, th["text_light"])))
        s2 == IF subtitle # ""
              THEN EmitAll(s1, LightText(In(2000), In(4500), In(9300),
                                   In(1000), subtitle, 20, th["text_light"],
                                   "lighten 0.2"))
              ELSE s1
        s3 == IF contact # ""
              THEN EmitAll(s2, LightText(In(2000), In(5500), In(9300),
                                   In(800), contact, 16, th["text_light"],
                                   "lighten 0.3"))
              ELSE s2
    IN  Emit(s3, _add_decorative_bar(0, In(7250), In(13333), In(80),
                                     th["accent"]))

\* SLIDE_BUILDERS: slide_type -> builder
SLIDE_BUILDERS ==
    [title |-> "_build_title_slide", cover |-> "_build_title_slide",
     section |-> "_build_section_slide", divider |-> "_build_section_slide",
     content |-> "_build_content_slide", text |-> "_build_content_slide",
     two_column |-> "_build_two_column_slide",
     two_columns |-> "_build_two_column_slide",
     three_column |-> "_build_three_column_slide",
     three_columns |-> "_build_three_column_slide",
     cards |-> "_build_cards_slide", chart |-> "_build_chart_slide",
     stats |-> "_build_stats_slide", statistics |-> "_build_stats_slide",
     timeline |-> "_build_timeline_slide", table |-> "_build_table_slide",
     image |-> "_build_image_slide", comparison |-> "_build_comparison_slide",
     quote |-> "_build_quote_slide", ending |-> "_build_ending_slide",
     thank_you |-> "_build_ending_slide"]

\* slide_type.lower().strip() on the tags of the model
LowerStrip(tag) ==
    CASE tag = "CONTENT" -> "content"
      [] tag = " Cards " -> "cards"
      [] OTHER -> tag

CallBuilder(name, prs, slide_data, th, ws, fs) ==
    CASE name = "_build_title_slide" ->
           _build_title_slide(prs, slide_data, th, ws, fs)
      [] name = "_build_section_slide" ->
           _build_section_slide(prs, slide_data, th, ws, fs)
      [] name = "_build_content_slide" ->
           _build_content_slide(prs, slide_data, th, ws, fs)
      [] name = "_build_two_column_slide" ->
           _build_two_column_slide(prs, slide_data, th, ws, fs)
      [] name = "_build_three_column_slide" ->
           _build_three_column_slide(prs, slide_data, th, ws, fs)
      [] name = "_build_cards_slide" ->
           _build_cards_slide(prs, slide_data, th, ws, fs)
      [] name = "_build_chart_slide" ->
           _build_chart_slide(prs, slide_data, th, ws, fs)
      [] name = "_build_stats_slide" ->
           _build_stats_slide(prs, slide_data, th, ws, fs)
      [] name = "_build_timeline_slide" ->
           _build_timeline_slide(prs, slide_data, th, ws, fs)
      [] name = "_build_table_slide" ->
           _build_table_slide(prs, slide_data, th, ws, fs)
      [] name = "_build_image_slide" ->
           _build_image_slide(prs, slide_data, th, ws, fs)
      [] name = "_build_comparison_slide" ->
           _build_comparison_slide(prs, slide_data, th, ws, fs)
      [] name = "_build_quote_slide" ->
           _build_quote_slide(prs, slide_data, th, ws, fs)
      [] name = "_build_ending_slide" ->
           _build_ending_slide(prs, slide_data, th, ws, fs)

\* the body of the loop of generate_pptx_presentation for one block: the
\* builder registered for its slide_type, or _build_content_slide
BuildSlide(prs, slide_data, th, ws, fs) ==
    LET slide_type == LowerStrip(Get(slide_data, "slide_type", "content"))
    IN  IF slide_type \in DOMAIN SLIDE_BUILDERS
        THEN CallBuilder(SLIDE_BUILDERS[slide_type], prs, slide_data, th, ws, fs)
        ELSE _build_content_slide(prs, slide_data, th, ws, fs)

----------------------------------------------------------------------------
(* office_tools.py: generate_word_document.                                *)
(* The document is the sequence of the elements added to it.  A run        *)
(* record [doc, ok] is threaded as for the slides.                         *)

\* an element of the document: its kind, its text, the colour handed to
\* _hex_to_rgb for it ("" when none is) and, for a table, its cell texts
Elem(el, text, color) ==
    [el |-> el, text |-> text, color |-> color, rows |-> <<>>]

\* _hex_to_rgb(hex_color) returns (does not raise)
_hex_to_rgb(hex_color) == hex_color \notin NotHex

\* adding the element raises: a colour of it is handed to _hex_to_rgb
ElemRaises(e) == e.color # "" /\ ~_hex_to_rgb(e.color)

WAdd(st, e) ==
    IF ~st.ok THEN st
    ELSE IF ElemRaises(e) THEN [st EXCEPT !.ok = FALSE]
    ELSE [st EXCEPT !.doc = Append(@, e)]

RECURSIVE WAddFrom(_, _, _)
WAddFrom(st, es, i) ==
    IF i > Len(es) THEN st ELSE WAddFrom(WAdd(st, es[i]), es, i + 1)

WAddAll(st, es) == WAddFrom(st, es, 1)

\* _set_header_footer and _add_page_number for one section
SectionFurniture(stgs) ==
    (IF Get(stgs, "header_text", "") # ""
     THEN <<Elem("header", stgs["header_text"], "")>> ELSE <<>>)
    \o (IF Get(stgs, "footer_text", "") # ""
        THEN <<Elem("footer", stgs["footer_text"], "")>> ELSE <<>>)
    \o (IF Get(stgs, "page_numbers", FALSE)
        THEN <<Elem("page_number", "PAGE", "")>> ELSE <<>>)

\* Cm(margins[side]) raises for a value that is not a number
MarginsRaise(stgs) ==
    \E side \in DOMAIN Get(stgs, "margins", EmptyDict) :
        ~IsNum(stgs["margins"][side])

\* the document-level settings of generate_word_document, applied before
\* the try block: default font, margins, orientation, header, footer and
\* page numbers
WordFurniture(stgs) ==
    <<Elem("font", Get(stgs, "default_font", "Calibri"), "")>>
    \o [i \in 1..Cardinality(DOMAIN Get(stgs, "margins", EmptyDict)) |->
          Elem("margin", "", "")]
    \o (IF Get(stgs, "orientation", "") = "landscape"
        THEN <<Elem("landscape", "", "")>> ELSE <<>>)
    \o SectionFurniture(stgs)

Max(a, b) == IF a > b THEN a ELSE b

RECURSIVE MaxLen(_, _)
MaxLen(rows, i) ==
    IF i > Len(rows) THEN 0 ELSE Max(Len(rows[i]), MaxLen(rows, i + 1))

\* the cell texts of a Word table: every row padded with "" to n_cols
PaddedRows(rows_data) ==
    [r \in 1..Len(rows_data) |->
       [c \in 1..MaxLen(rows_data, 1) |->
          IF c <= Len(rows_data[r]) THEN rows_data[r][c] ELSE ""]]

ListItems(item, style) ==
    [i \in 1..Len(Get(item, "items", <<>>)) |->
       Elem(style, item["items"][i], "")]

\* the branch of generate_word_document for one block other than a chart
\* (a "paragraph" whose text is a str); a type with no branch adds nothing
WordBlockElems(item, stgs, ws, fs) ==
    LET item_type == Get(item, "type", "paragraph")
        fmt == Get(item, "format", EmptyDict)
    IN  CASE item_type = "cover_page" ->
               [i \in 1..4 |-> Elem("paragraph", "", "")]
               \o (IF Get(item, "logo_path", "") # ""
                      /\ JoinPath(ws, item["logo_path"]) \in fs
                   THEN <<Elem("paragraph", "", ""),
                          Elem("picture", item["logo_path"], ""),
                          Elem("paragraph", "", "")>>
                   ELSE <<>>)
               \o <<Elem("cover_title", Get(item, "title", ""),
                         Get(item, "title_color", "#003366"))>>
               \o (IF Get(item, "subtitle", "") # ""
                   THEN <<Elem("cover_subtitle", item["subtitle"],
                               Get(item, "subtitle_color", "#666666"))>>
                   ELSE <<>>)
               \o <<Elem("paragraph", "", ""), Elem("paragraph", "", "")>>
               \o (IF HasMeta(item)
                   THEN <<Elem("cover_info",
                               IF Get(item, "author", "") # ""
                                  /\ Get(item, "date", "") # ""
                               THEN item["author"] \o "\n" \o item["date"]
                               ELSE IF Get(item, "author", "") # ""
                               THEN item["author"] ELSE item["date"], "")>>
                   ELSE <<>>)
               \o <<Elem("page_break", "", "")>>
          [] item_type = "toc" ->
               <<Elem("toc", "", ""), Elem("page_break", "", "")>>
          [] item_type = "heading" ->
               <<Elem("heading", Get(item, "text", ""),
                      IF Get(item, "text", "") # ""
                      THEN Get(fmt, "color", "") ELSE "")>>
          [] item_type = "paragraph" ->
               <<Elem("paragraph", Get(item, "text", ""),
                      Get(fmt, "color", ""))>>
          [] item_type = "rich_paragraph" ->
               <<Elem("paragraph", "", "")>>
               \o [i \in 1..Len(Get(item, "parts", <<>>)) |->
                     LET part == item["parts"][i]
                     IN  IF IsStr(part) THEN Elem("run", part["str"], "")
                         ELSE Elem("run", Get(part, "text", ""),
                                   Get(part, "color", ""))]
          [] item_type = "bullet_list" -> ListItems(item, "List Bullet")
          [] item_type = "numbered_list" -> ListItems(item, "List Number")
          [] item_type = "table" ->
               IF Get(item, "rows", <<>>) = <<>> THEN <<>>
               ELSE <<[Elem("table", "",
                            Get(item, "header_font_color", "#FFFFFF"))
                         EXCEPT !.rows = PaddedRows(item["rows"])]>>
          [] item_type = "image" ->
               IF JoinPath(ws, Get(item, "path", "")) \in fs
               THEN <<Elem("paragraph", "", ""),
                      Elem("picture", Get(item, "path", ""), "")>>
                    \o (IF Get(item, "caption", "") # ""
                        THEN <<Elem("caption", item["caption"], "")>>
                        ELSE <<>>)
               ELSE <<>>
          [] item_type = "quote" ->
               <<Elem("quote", Get(item, "text", ""), "")>>
               \o (IF Get(item, "author", "") # ""
                   THEN <<Elem("quote_author", "- " \o item["author"], "")>>
                   ELSE <<>>)
          [] item_type = "code_block" ->
               <<Elem("code", Get(item, "code", ""), "")>>
          [] item_type = "horizontal_rule" -> <<Elem("rule", "", "")>>
          [] item_type = "page_break" -> <<Elem("page_break", "", "")>>
          [] item_type = "section_break" ->
               <<Elem("section", "", "")>>
               \o (IF Get(item, "orientation", "") = "landscape"
                   THEN <<Elem("landscape", "", "")>> ELSE <<>>)
               \o SectionFurniture(stgs)
          [] item_type = "watermark" ->
               <<Elem("watermark", Get(item, "text", "DRAFT"), "")>>
          [] OTHER -> <<>>

----------------------------------------------------------------------------
(* office_tools.py: _generate_chart_image and the chart branch *)

\* the first eight hex digits of a uuid4, as many of them as show that two
\* draws may or may not agree
ChartIds == {"0a1b2c3d", "4e5f6a7b"}

\* os.path.join(workspace, ".charts", f"chart_{id}.png")
ChartPath(ws, id) == ws \o "/.charts/chart_" \o id \o ".png"

\* matplotlib raises on the colour of a series it draws
ChartRaises(chart_config) ==
    LET colors == Get(chart_config, "colors", <<>>)
        series_list == Get(chart_config, "series", <<>>)
    IN  /\ colors # <<>>
        /\ \E i \in 1..Len(series_list) :
              colors[((i - 1) % Len(colors)) + 1] \in NotHex

StackBottom_zero(series_list, C, k) == [c \in 1..C |-> 0]

\* the stacked_bar branch, lines 209-214: `bottom` when series k (from 1)
\* is drawn, np.zeros(len(categories)) with `bottom += vals` applied for
\* the series before it; a series of one value is broadcast
RECURSIVE StackBottom(_, _, _)
StackBottom(series_list, C, k) ==
    IF k = 1 THEN [c \in 1..C |-> 0]
    ELSE LET vals == SubSeq(Get(series_list[k - 1], "values",
                                [c \in 1..C |-> 0]), 1, C)
             before == StackBottom(series_list, C, k - 1)
         IN  [c \in 1..C |->
                before[c] + (IF Len(vals) = 1 THEN vals[1]
                             ELSE IF c <= Len(vals) THEN vals[c] ELSE 0)]

\* _generate_chart_image, lines 152-249: the plotting calls made on the
\* axes, in order, each [call, series (index from 0), x, y, bottom,
\* labels]; when a call raises (its arrays do not fit) the function ends
\* there.  x + offset of grouped bars is recorded as x and series.
_generate_chart_image(chart_config) ==
    LET chart_type == Get(chart_config, "chart_type", "bar")
        categories == Get(chart_config, "categories", <<>>)
        series_list == Get(chart_config, "series", <<>>)
        C == Len(categories)
        n == Len(series_list)
        Range(m) == [i \in 1..m |-> i - 1]
        Take(sq, m) == SubSeq(sq, 1, Min(Len(sq), m))
        Vals(i) == Get(series_list[i], "values", <<>>)
        Call(call, i, x, y, bottom, labels) ==
            [call |-> call, series |-> i - 1, x |-> x, y |-> y,
             bottom |-> bottom, labels |-> labels]
        x_cat == IF categories # <<>> THEN Range(C) ELSE <<>>
        all ==
            CASE chart_type = "pie" ->
                   IF n > 0
                   THEN <<Call("pie", 1, <<>>, Vals(1), <<>>, categories)>>
                   ELSE <<>>
              [] chart_type = "scatter" ->
                   [i \in 1..n |->
                      Call("scatter", i,
                           Take(IF categories = <<>> THEN Range(Len(Vals(i)))
                                ELSE Range(C), Len(Vals(i))),
                           Vals(i), <<>>, <<>>)]
              [] chart_type = "area" ->
                   [j \in 1..(2 * n) |->
                      LET i == (j + 1) \div 2
                      IN  Call(IF j % 2 = 1 THEN "fill_between" ELSE "plot",
                               i, Take(x_cat, Len(Vals(i))), Vals(i),
                               <<>>, <<>>)]
              [] chart_type = "bar_horizontal" ->
                   [i \in 1..n |->
                      Call("barh", i, Range(C), Take(Vals(i), C), <<>>, <<>>)]
              [] chart_type = "stacked_bar" ->
                   [i \in 1..n |->
                      Call("bar", i, Range(C),
                           Take(Get(series_list[i], "values",
                                    [c \in 1..C |-> 0]), C),
                           StackBottom(series_list, C, i), <<>>)]
              [] chart_type = "line" ->
                   [i \in 1..n |->
                      Call("plot", i, Take(x_cat, Len(Vals(i))), Vals(i),
                           <<>>, <<>>)]
              [] OTHER ->
                   [i \in 1..n |->
                      Call("bar", i, Range(C), Take(Vals(i), C), <<>>, <<>>)]
        Fails(d) ==
            CASE d.call = "pie" -> Len(d.labels) # Len(d.y)
              [] d.call \in {"bar", "barh"} ->
                   Len(d.x) # Len(d.y) /\ Len(d.y) # 1 /\ Len(d.x) # 1
              [] OTHER -> Len(d.x) # Len(d.y)
        bad == {i \in 1..Len(all) : Fails(all[i])}
        first == IF bad = {} THEN Len(all) + 1
                 ELSE CHOOSE i \in bad : \A j \in bad : i <= j
    IN  [ok |-> bad = {} /\ ~ChartRaises(chart_config),
         calls |-> SubSeq(all, 1, first - 1)]

\* what the saved image shows
ChartImage(chart_config) == "chart:" \o Get(chart_config, "title", "")

\* the elements added once the chart image is at chart_path: the picture
\* read from that path and the caption when there is a title
ChartElems(item, fs, chart_path) ==
    IF chart_path \in DOMAIN fs
    THEN <<Elem("paragraph", "", ""), Elem("picture", fs[chart_path], "")>>
         \o (IF Get(item, "title", "") # ""
             THEN <<Elem("caption", item["title"], "")>> ELSE <<>>)
    ELSE <<>>

----------------------------------------------------------------------------
(* office_tools.py: generate_excel_document.  The workbook is the         *)
(* sequence of its sheets; a sheet has a name, its cells row by row and   *)
(* its column widths (0 where none was set).                              *)

\* color_str.strip().lstrip('#'), as the sequence of its characters: the
\* blanks at both ends are dropped, then every leading '#'
StripHash(color_str) ==
    LET \* the number of characters ch the sequence s starts with
        Lead(s, ch) ==
            CHOOSE i \in 0..Len(s) :
                /\ \A j \in 1..i : s[j] = ch
                /\ i = Len(s) \/ s[i + 1] # ch
        \* the number of characters ch the sequence s ends with
        Trail(s, ch) ==
            CHOOSE i \in 0..Len(s) :
                /\ \A j \in (Len(s) - i + 1)..Len(s) : s[j] = ch
                /\ i = Len(s) \/ s[Len(s) - i] # ch
        LStrip(s, ch) == SubSeq(s, Lead(s, ch) + 1, Len(s))
        RStrip(s, ch) == SubSeq(s, 1, Len(s) - Trail(s, ch))
    IN  LStrip(RStrip(LStrip(ColorText[color_str], " "), " "), "#")

NamedColors ==
    [red |-> "FF0000", green |-> "00AA00", blue |-> "0066CC",
     black |-> "000000", white |-> "FFFFFF", gray |-> "888888",
     grey |-> "888888", orange |-> "FF8800", purple |-> "8800CC",
     yellow |-> "FFCC00", navy |-> "003366", teal |-> "008080",
     darkblue |-> "003366", darkgreen |-> "006600", darkred |-> "990000"]

\* _parse_color: the default for an empty string; else the named colour
\* whose name is the lowercased stripped string; else the stripped string
\* itself when it has six characters; else the default
_parse_color(color_str, default) ==
    LET upper == <<"A", "B", "C", "D", "E", "F", "G", "H", "I", "J", "K",
                   "L", "M", "N", "O", "P", "Q", "R", "S", "T", "U", "V",
                   "W", "X", "Y", "Z">>
        lower == <<"a", "b", "c", "d", "e", "f", "g", "h", "i", "j", "k",
                   "l", "m", "n", "o", "p", "q", "r", "s", "t", "u", "v",
                   "w", "x", "y", "z">>
        Low(ch) == IF \E i \in 1..26 : upper[i] = ch
                   THEN lower[CHOOSE i \in 1..26 : upper[i] = ch] ELSE ch
        Named(c) == {k \in DOMAIN NamedColors :
                        ColorText[k] = [i \in 1..Len(c) |-> Low(c[i])]}
        Parse(c) ==
            IF Named(c) # {} THEN NamedColors[CHOOSE k \in Named(c) : TRUE]
            ELSE IF Len(c) = 6
            THEN CHOOSE t \in DOMAIN ColorText : ColorText[t] = c
            ELSE default
    IN  IF color_str = "" THEN default ELSE Parse(StripHash(color_str))

DefaultHeaderStyle ==
    [bold |-> TRUE, font_size |-> 11, font_color |-> "FFFFFF",
     bg_color |-> "4472C4", alignment |-> "center",
     border |-> [color |-> "4472C4", style |-> "thin"]]

\* _apply_cell_style: the fill and the font colour the cell ends with
StyledCell(value, style_dict) ==
    [value |-> value,
     bg |-> IF "bg_color" \in DOMAIN style_dict
            THEN _parse_color(style_dict["bg_color"], "333333") ELSE "",
     font_color |-> IF Get(style_dict, "font_color", "") # ""
                    THEN _parse_color(style_dict["font_color"], "333333")
                    ELSE ""]

\* sc[0] if r_idx % 2 == 0 else sc[1] raises IndexError
StripeRaises(sheet_info, r_idx) ==
    /\ "stripe_colors" \in DOMAIN sheet_info
    /\ Len(sheet_info["stripe_colors"]) < (IF r_idx % 2 = 0 THEN 1 ELSE 2)

\* the branch of the cell loop taken for row r_idx: "header", "data",
\* "default_header" or "default_data"
CellBranch(sheet_info, r_idx) ==
    IF r_idx = 1 /\ Get(sheet_info, "header_style", DefaultHeaderStyle)
                     # EmptyDict
    THEN "header"
    ELSE IF Get(sheet_info, "data_style", EmptyDict) # EmptyDict THEN "data"
    ELSE IF r_idx = 1 THEN "default_header"
    ELSE "default_data"

\* the cell written at row r_idx (counted from 1) of the sheet
SheetCell(sheet_info, r_idx, value) ==
    LET branch == CellBranch(sheet_info, r_idx)
    IN  CASE branch = "header" ->
               StyledCell(value, Get(sheet_info, "header_style",
                                     DefaultHeaderStyle))
          [] branch = "data" ->
               StyledCell(value,
                   IF "stripe_colors" \in DOMAIN sheet_info
                   THEN SetItem(sheet_info["data_style"], "bg_color",
                            sheet_info["stripe_colors"]
                                [IF r_idx % 2 = 0 THEN 1 ELSE 2])
                   ELSE sheet_info["data_style"])
          [] branch = "default_header" -> StyledCell(value, DefaultHeaderStyle)
          [] OTHER -> StyledCell(value, EmptyDict)

\* a cell of the data loop raises
SheetRaises(sheet_info) ==
    \E r_idx \in 1..Len(Get(sheet_info, "data", <<>>)) :
        /\ sheet_info["data"][r_idx] # <<>>
        /\ CellBranch(sheet_info, r_idx) = "data"
        /\ StripeRaises(sheet_info, r_idx)

RECURSIVE MaxCellLen(_, _, _)
\* max_len for column c_idx from row r_idx on: the longest
\* len(str(cell.value)) among the cells whose value is true (a str that
\* is not empty, an int that is not 0); a cell past the end of its row
\* holds None
MaxCellLen(data, c_idx, r_idx) ==
    LET value == data[r_idx][c_idx]
        cell_len == IF IsStr(value) THEN Len(value["str"])
                    ELSE Len(ToString(value["num"]))
        true == IF IsStr(value) THEN value["str"] # "" ELSE value["num"] # 0
    IN  IF r_idx > Len(data) THEN 0
        ELSE Max(IF c_idx <= Len(data[r_idx]) /\ true THEN cell_len ELSE 0,
                 MaxCellLen(data, c_idx, r_idx + 1))

SheetWidths_noCap(sheet_info) ==
    LET data == Get(sheet_info, "data", <<>>)
        col_widths == Get(sheet_info, "column_widths", <<>>)
    IN  IF col_widths # <<>> THEN col_widths
        ELSE [c_idx \in 1..MaxLen(data, 1) |->
                Max(MaxCellLen(data, c_idx, 1) + 4, 10)]

\* the column widths: those of a column_widths list, else
\* min(max(max_len + 4, 10), 50) for every column of the data
SheetWidths(sheet_info) ==
    LET data == Get(sheet_info, "data", <<>>)
        col_widths == Get(sheet_info, "column_widths", <<>>)
    IN  IF col_widths # <<>> THEN col_widths
        ELSE [c_idx \in 1..MaxLen(data, 1) |->
                Min(Max(MaxCellLen(data, c_idx, 1) + 4, 10), 50)]

\* one iteration of the sheet loop of generate_excel_document
BuildSheet(sheet_info) ==
    LET data == Get(sheet_info, "data", <<>>)
    IN  [name |-> Get(sheet_info, "name", "Sheet"),
         cells |-> [r \in 1..Len(data) |->
                      [c \in 1..Len(data[r]) |->
                         SheetCell(sheet_info, r, data[r][c])]],
         widths |-> SheetWidths(sheet_info)]

----------------------------------------------------------------------------
(* The arguments callers pass *)

\* slide definitions: one for each builder, one with no slide_type, one
\* with a tag in upper case and a colour that is no hex colour, one with
\* a tag that is not registered
PptxBlocks ==
    {[slide_type |-> "title", title |-> "Plan", subtitle |-> "2025",
      author |-> "Ann"],
     [slide_type |-> "section", title |-> "Part 1", subtitle |-> "Intro"],
     [slide_type |-> "content", title |-> "Goals",
      content |-> [text |-> "body"]],
     [title |-> "Mixed", content |-> [str |-> "plain"],
      elements |-> <<[type |-> "image", path |-> "pic.png"],
                     [type |-> "image", path |-> "gone.png"],
                     [type |-> "shape", color |-> "#00FF00"]>>],
     [slide_type |-> "CONTENT", title |-> "Bad",
      content |-> [text |-> "body", color |-> "zz"]],
     [slide_type |-> "two_column", title |-> "Two", left_title |-> "L",
      left_column |-> [bullets |-> <<"a", "b">>],
      right_column |-> [str |-> "right"]],
     [slide_type |-> "three_column", title |-> "Three",
      columns |-> <<[title |-> "A", content |-> [text |-> "a"]],
                    [title |-> "B", icon |-> "*", content |-> [str |-> "b"]]>>],
     [slide_type |-> " Cards ", title |-> "Cards",
      cards |-> <<[title |-> "K1", content |-> [text |-> "c1"]],
                  [title |-> "K2", icon |-> "+", content |-> [str |-> "c2"]]>>],
     [slide_type |-> "chart", title |-> "Chart",
      chart |-> [chart_type |-> "pie", categories |-> <<"x", "y">>,
                 series |-> <<[name |-> "s", values |-> <<1, 2>>]>>],
      description |-> [text |-> "seen"]],
     [slide_type |-> "stats", title |-> "Stats",
      stats |-> <<[value |-> "42", label |-> "Users"],
                  [value |-> "7", label |-> "Teams", description |-> "all"]>>],
     [slide_type |-> "timeline", title |-> "Road",
      steps |-> <<[title |-> "Start", time_label |-> "Q1"],
                  [title |-> "End", description |-> "done"]>>],
     [slide_type |-> "table", title |-> "Table",
      table |-> [data |-> <<<<"h1", "h2">>, <<"1", "2">>>>]],
     [slide_type |-> "image", title |-> "Image", image_path |-> "pic.png",
      caption |-> "A picture", description |-> [text |-> "shown"]],
     [slide_type |-> "image", title |-> "Lost", image_path |-> "gone.png",
      caption |-> "No picture", description |-> [text |-> "unseen"]],
     [slide_type |-> "comparison", title |-> "Versus",
      left_items |-> <<"fast">>, right_items |-> <<"cheap", "safe">>],
     [slide_type |-> "quote", text |-> "Less is more", author |-> "Mies"],
     [slide_type |-> "ending", subtitle |-> "Questions", contact |-> "a@b.c"],
     [slide_type |-> "mystery", title |-> "Unknown",
      content |-> [text |-> "kept"]]}

\* presentation_settings: none, a registered theme with a valid override,
\* an unregistered theme with an override that is no hex colour
PptxSettings ==
    {EmptyDict,
     [theme |-> "coral", custom_colors |-> [accent |-> "#111111"]],
     [theme |-> "neon", custom_colors |-> [primary |-> "zz"]]}

SalesChart ==
    [type |-> "chart", title |-> "Sales", categories |-> <<"x">>,
     series |-> <<[name |-> "s", values |-> <<1>>]>>]
CostsChart ==
    [type |-> "chart", title |-> "Costs", categories |-> <<"x">>,
     series |-> <<[name |-> "s", values |-> <<2>>]>>]

\* Word blocks: the documented kinds (a paragraph without a type, one
\* with a colour that is no hex colour, a ragged and an empty table, an
\* image that exists and one that does not, two charts, a chart with a
\* colour matplotlib rejects), and the documented "footnote", which has
\* no branch
WordBlocks ==
    {[type |-> "heading", text |-> "Intro", format |-> [color |-> "#112233"]],
     [text |-> "plain"],
     [type |-> "paragraph", text |-> "bad", format |-> [color |-> "zz"]],
     [type |-> "rich_paragraph",
      parts |-> <<[str |-> "a"], [text |-> "b", color |-> "#FF0000"]>>],
     [type |-> "bullet_list", items |-> <<"one", "two">>],
     [type |-> "table", rows |-> <<<<"h1", "h2">>, <<"1">>>>],
     [type |-> "table", rows |-> <<>>],
     [type |-> "image", path |-> "pic.png", caption |-> "Fig. 1"],
     [type |-> "image", path |-> "gone.png", caption |-> "Fig. 2"],
     SalesChart, CostsChart,
     [type |-> "chart", title |-> "Broken", categories |-> <<"x">>,
      series |-> <<[name |-> "s", values |-> <<3>>]>>, colors |-> <<"zz">>],
     [type |-> "cover_page", title |-> "Report", author |-> "Ann",
      logo_path |-> "gone.png"],
     [type |-> "section_break", orientation |-> "landscape"],
     [type |-> "quote", text |-> "Less is more", author |-> "Mies"],
     [type |-> "footnote", text |-> "see there"]}

\* the lists of two callers that run at the same time
ChartLists ==
    {<<SalesChart>>, <<[text |-> "plain"], CostsChart>>,
     <<SalesChart, CostsChart>>}

\* document_settings: none, header with page numbers and a margin in cm,
\* a margin given as a str
WordSettings ==
    {EmptyDict,
     [header_text |-> "Draft", page_numbers |-> TRUE,
      margins |-> [top |-> [num |-> 2]]],
     [margins |-> [top |-> [str |-> "2cm"]]]}

\* sheet definitions: plain, striped with two and with one stripe colour,
\* given widths, no data; a cell value is a str, [str |-> ..], or an int,
\* [num |-> ..]
ExcelSheets ==
    {[name |-> "Plain",
      data |-> <<<<[str |-> "Name"], [str |-> "Qty"]>>,
                 <<[str |-> "apple"], [num |-> 3]>>>>],
     [name |-> "Striped",
      data |-> <<<<[str |-> "h"]>>, <<[str |-> "r2"]>>, <<[str |-> "r3"]>>>>,
      data_style |-> [font_color |-> "red"],
      stripe_colors |-> <<"#FF0000", "#EEEEEE">>],
     [name |-> "Short",
      data |-> <<<<[str |-> "h"]>>, <<[str |-> "r2"]>>, <<[str |-> "r3"]>>>>,
      data_style |-> [font_color |-> "red"],
      stripe_colors |-> <<"#FFF">>],
     [name |-> "Wide",
      data |-> <<<<[str |-> "a"], [str |-> "b"]>>, <<[str |-> "c"]>>>>,
      header_style |-> EmptyDict, column_widths |-> <<12, 30>>],
     [name |-> "Empty"]}

\* the lists of at most MaxBlocks blocks over a pool
Lists(pool) == UNION {[1..n -> pool] : n \in 0..MaxBlocks}

----------------------------------------------------------------------------
(* The calls.  A caller p has built a block list (args[p], kept as built  *)
(* in orig[p]) and passes that list to one generator, once or again; it   *)
(* is idle or inside one call, and what the last call gave back stays in  *)
(* result[p] until p calls again.                                         *)

Result(out, success, path, error, slides_count) ==
    [out |-> out, success |-> success, file_path |-> path, error |-> error,
     slides_count |-> slides_count]

NoResult == Result("none", FALSE, "", "", 0 - 1)
\* the call returned {"success": True, "file_path": .., ..}
Success(path, slides_count) == Result("return", TRUE, path, "", slides_count)
\* the call returned {"error": ..}
ErrorRecord(msg) == Result("return", FALSE, "", msg, 0 - 1)
\* the call ended with an exception that reached its caller
Raised(msg) == Result("raise", FALSE, "", msg, 0 - 1)

\* what get_workspace_path() may return, and the files a workspace may
\* hold before the first call
Workspaces == {"", "/ws"}
FilesBefore == [x \in {"/ws/pic.png"} |-> "png"]

callVars == <<settings, theme, doc, cursor, saves, pending, charts, result>>

\* the state before any call, but for the callers' lists
InitCalls ==
    /\ THEMES = THEMES0
    /\ workspace \in Workspaces
    /\ files = FilesBefore
    /\ pc = [p \in Procs |-> "idle"]
    /\ settings = [p \in Procs |-> EmptyDict]
    /\ theme = [p \in Procs |-> EmptyDict]
    /\ doc = [p \in Procs |-> <<>>]
    /\ cursor = [p \in Procs |-> 0]
    /\ saves = [p \in Procs |-> 0]
    /\ pending = [p \in Procs |-> ""]
    /\ charts = [p \in Procs |-> <<>>]
    /\ result = [p \in Procs |-> NoResult]

Enter_noWorkspaceCheck(p, stgs, th, d, raised) ==
    /\ pc[p] = "idle"
    /\ settings' = [settings EXCEPT ![p] = stgs]
    /\ cursor' = [cursor EXCEPT ![p] = 0]
    /\ saves' = [saves EXCEPT ![p] = 0]
    /\ pending' = [pending EXCEPT ![p] = ""]
    /\ charts' = [charts EXCEPT ![p] = <<>>]
    /\ theme' = [theme EXCEPT ![p] = th]
    /\ doc' = [doc EXCEPT ![p] = d]
    /\ files' = SetDefault(files, workspace, "dir")
    /\ result' = [result EXCEPT ![p] = NoResult]
    /\ pc' = [pc EXCEPT ![p] = "blocks"]
    /\ UNCHANGED <<workspace, kind, args, orig, file_path, themeVars,
                   cardVars, pureVars, tool>>

\* entry of a generator: the per-call state is fresh; without a workspace
\* the call returns its error record at once; else os.makedirs creates
\* the directory of the output path (the workspace when the path names
\* none) unless it exists, and an exception of the statements before the
\* loop (raised) leaves the function
Enter(p, stgs, th, d, raised) ==
    /\ pc[p] = "idle"
    /\ settings' = [settings EXCEPT ![p] = stgs]
    /\ cursor' = [cursor EXCEPT ![p] = 0]
    /\ saves' = [saves EXCEPT ![p] = 0]
    /\ pending' = [pending EXCEPT ![p] = ""]
    /\ charts' = [charts EXCEPT ![p] = <<>>]
    /\ theme' = [theme EXCEPT ![p] = th]
    /\ doc' = [doc EXCEPT ![p] = d]
    /\ IF workspace = ""
       THEN /\ result' = [result EXCEPT
                            ![p] = ErrorRecord("Workspace not configured")]
            /\ UNCHANGED pc
       ELSE IF raised
       THEN /\ result' = [result EXCEPT ![p] = Raised("settings")]
            /\ UNCHANGED pc
       ELSE /\ result' = [result EXCEPT ![p] = NoResult]
            /\ pc' = [pc EXCEPT ![p] = "blocks"]
    /\ LET dirname == CASE file_path[p] = "out/report.docx" -> "/out"
                        [] OTHER -> ""
       IN  files' = IF workspace = "" THEN files
                    ELSE SetDefault(files, workspace \o dirname, "dir")
    /\ UNCHANGED <<workspace, kind, args, orig, file_path, themeVars,
                   cardVars, pureVars, tool>>

LoopDone_anyTime(p) == cursor[p] <= Len(args[p])

\* the for loop over the list has run to its end
LoopDone(p) == cursor[p] = Len(args[p])

\* the file system after a save that raised: the file was not opened, or
\* it was opened and holds what had been written when the save raised
SaveFails(fs, path) == {fs, SetItem(fs, path, "partial")}

\* generate_pptx_presentation up to the loop
PptxCall(p) ==
    \E stgs \in PptxSettings :
        LET theme_name == Get(stgs, "theme", "midnight")
            custom_colors == Get(stgs, "custom_colors", EmptyDict)
        IN  /\ kind[p] = "pptx"
            /\ Enter(p, stgs,
                     IF workspace = "" THEN EmptyDict
                     ELSE ResolveTheme(THEMES, theme_name, custom_colors),
                     <<>>, FALSE)
            /\ THEMES' = IF workspace = "" THEN THEMES
                         ELSE RegistryAfterResolve(THEMES, theme_name,
                                                   custom_colors)

\* one iteration of the loop of generate_pptx_presentation: the builder of
\* the next block runs; an exception of the builder leaves the function
PptxBlock(p) ==
    /\ pc[p] = "blocks" /\ kind[p] = "pptx"
    /\ cursor[p] < Len(args[p])
    /\ LET r == BuildSlide(doc[p], args[p][cursor[p] + 1], theme[p],
                           workspace, DOMAIN files)
       IN  /\ doc' = [doc EXCEPT ![p] = r.prs]
           /\ args' = [args EXCEPT ![p][cursor[p] + 1] = r.blk]
           /\ IF r.ok
              THEN /\ cursor' = [cursor EXCEPT ![p] = @ + 1]
                   /\ UNCHANGED <<pc, result>>
              ELSE /\ pc' = [pc EXCEPT ![p] = "idle"]
                   /\ result' = [result EXCEPT ![p] = Raised("builder")]
                   /\ UNCHANGED cursor
    /\ UNCHANGED <<themeVars, cardVars, pureVars, tool, THEMES, workspace, files, kind, orig, settings, file_path,
                   theme, saves, pending, charts>>

\* prs.save(full_path) after the loop and the return; the save writes the
\* file or raises, and nothing catches it
PptxSave(p) ==
    /\ pc[p] = "blocks" /\ kind[p] = "pptx"
    /\ LoopDone(p)
    /\ saves' = [saves EXCEPT ![p] = @ + 1]
    /\ pc' = [pc EXCEPT ![p] = "idle"]
    /\ \/ /\ files' = SetItem(files, JoinPath(workspace, file_path[p]), "pptx")
          /\ result' = [result EXCEPT
                          ![p] = Success(JoinPath(workspace, file_path[p]),
                                         Len(doc[p]))]
       \/ /\ result' = [result EXCEPT ![p] = Raised("save")]
          /\ files' \in SaveFails(files, JoinPath(workspace, file_path[p]))
    /\ UNCHANGED <<themeVars, cardVars, pureVars, tool, THEMES, workspace, kind, args, orig, settings, file_path,
                   theme, doc, cursor, pending, charts>>

----------------------------------------------------------------------------
(* generate_word_document *)

\* generate_word_document up to the try: the workspace check and the
\* document-level settings, whose exceptions nothing catches
WordCall(p) ==
    \E stgs \in WordSettings :
        /\ kind[p] = "word"
        /\ Enter(p, stgs, EmptyDict,
                 IF workspace = "" \/ MarginsRaise(stgs) THEN <<>>
                 ELSE WordFurniture(stgs),
                 MarginsRaise(stgs))
        /\ UNCHANGED THEMES

\* the call leaves through `except Exception`: the error record
WordCaught(p) ==
    /\ pc' = [pc EXCEPT ![p] = "idle"]
    /\ result' = [result EXCEPT ![p] = ErrorRecord("Word generation error")]

\* one iteration of the loop for a block that is no chart
WordBlock(p) ==
    /\ pc[p] = "blocks" /\ kind[p] = "word"
    /\ cursor[p] < Len(args[p])
    /\ LET item == args[p][cursor[p] + 1]
           r == WAddAll([doc |-> doc[p], ok |-> TRUE],
                        WordBlockElems(item, settings[p], workspace,
                                       DOMAIN files))
       IN  /\ Get(item, "type", "paragraph") # "chart"
           /\ doc' = [doc EXCEPT ![p] = r.doc]
           /\ IF r.ok
              THEN /\ cursor' = [cursor EXCEPT ![p] = @ + 1]
                   /\ UNCHANGED <<pc, result>>
              ELSE /\ WordCaught(p)
                   /\ UNCHANGED cursor
    /\ UNCHANGED <<themeVars, cardVars, pureVars, tool, THEMES, workspace, files, kind, args, orig, settings,
                   file_path, theme, saves, pending, charts>>

\* the chart branch up to the return of _generate_chart_image: the image
\* is saved under a path made from eight hex digits of a fresh uuid4
WordChartGenerate(p) ==
    /\ pc[p] = "blocks" /\ kind[p] = "word"
    /\ cursor[p] < Len(args[p])
    /\ LET item == args[p][cursor[p] + 1]
       IN  /\ Get(item, "type", "paragraph") = "chart"
           /\ IF ChartRaises(item)
              THEN /\ WordCaught(p)
                   /\ UNCHANGED <<files, pending, charts>>
              ELSE \E id \in ChartIds :
                     /\ files' = SetItem(files, ChartPath(workspace, id),
                                         ChartImage(item))
                     /\ pending' = [pending EXCEPT
                                      ![p] = ChartPath(workspace, id)]
                     /\ charts' = [charts EXCEPT
                                     ![p] = Append(@, ChartPath(workspace, id))]
                     /\ pc' = [pc EXCEPT ![p] = "chart"]
                     /\ UNCHANGED result
    /\ UNCHANGED <<themeVars, cardVars, pureVars, tool, THEMES, workspace, kind, args, orig, settings, file_path,
                   theme, doc, cursor, saves>>

\* the rest of the chart branch: the picture is read from chart_path
WordChartEmbed(p) ==
    /\ pc[p] = "chart" /\ kind[p] = "word"
    /\ doc' = [doc EXCEPT
                 ![p] = @ \o ChartElems(args[p][cursor[p] + 1], files,
                                        pending[p])]
    /\ cursor' = [cursor EXCEPT ![p] = @ + 1]
    /\ pending' = [pending EXCEPT ![p] = ""]
    /\ pc' = [pc EXCEPT ![p] = "blocks"]
    /\ UNCHANGED <<themeVars, cardVars, pureVars, tool, THEMES, workspace, files, kind, args, orig, settings,
                   file_path, theme, saves, charts, result>>

\* doc.save(full_path) after the loop, inside the try: the file is
\* written, or the save raises and the error record is returned
WordSave(p) ==
    /\ pc[p] = "blocks" /\ kind[p] = "word"
    /\ LoopDone(p)
    /\ saves' = [saves EXCEPT ![p] = @ + 1]
    /\ \/ /\ files' = SetItem(files, JoinPath(workspace, file_path[p]), "docx")
          /\ pc' = [pc EXCEPT ![p] = "idle"]
          /\ result' = [result EXCEPT
                          ![p] = Success(JoinPath(workspace, file_path[p]),
                                         0 - 1)]
       \/ /\ WordCaught(p)
          /\ files' \in SaveFails(files, JoinPath(workspace, file_path[p]))
    /\ UNCHANGED <<themeVars, cardVars, pureVars, tool, THEMES, workspace, kind, args, orig, settings, file_path,
                   theme, doc, cursor, pending, charts>>

----------------------------------------------------------------------------
(* generate_excel_document *)

\* generate_excel_document up to the try
ExcelCall(p) ==
    /\ kind[p] = "excel"
    /\ Enter(p, EmptyDict, EmptyDict, <<>>, FALSE)
    /\ UNCHANGED THEMES

ExcelCaught(p) ==
    /\ pc' = [pc EXCEPT ![p] = "idle"]
    /\ result' = [result EXCEPT ![p] = ErrorRecord("Excel generation error")]

\* one iteration of the sheet loop
ExcelSheet(p) ==
    /\ pc[p] = "blocks" /\ kind[p] = "excel"
    /\ cursor[p] < Len(args[p])
    /\ LET sheet_info == args[p][cursor[p] + 1]
       IN  IF SheetRaises(sheet_info)
           THEN /\ ExcelCaught(p)
                /\ UNCHANGED <<doc, cursor>>
           ELSE /\ doc' = [doc EXCEPT ![p] = Append(@, BuildSheet(sheet_info))]
                /\ cursor' = [cursor EXCEPT ![p] = @ + 1]
                /\ UNCHANGED <<pc, result>>
    /\ UNCHANGED <<themeVars, cardVars, pureVars, tool, THEMES, workspace, files, kind, args, orig, settings,
                   file_path, theme, saves, pending, charts>>

\* wb.save(full_path) after the loop, inside the try; a workbook without
\* a sheet cannot be saved
ExcelSave(p) ==
    /\ pc[p] = "blocks" /\ kind[p] = "excel"
    /\ LoopDone(p)
    /\ saves' = [saves EXCEPT ![p] = @ + 1]
    /\ \/ /\ doc[p] # <<>>
          /\ files' = SetItem(files, JoinPath(workspace, file_path[p]), "xlsx")
          /\ pc' = [pc EXCEPT ![p] = "idle"]
          /\ result' = [result EXCEPT
                          ![p] = Success(JoinPath(workspace, file_path[p]),
                                         0 - 1)]
       \/ /\ ExcelCaught(p)
          /\ files' \in SaveFails(files, JoinPath(workspace, file_path[p]))
    /\ UNCHANGED <<themeVars, cardVars, pureVars, tool, THEMES, workspace, kind, args, orig, settings, file_path,
                   theme, doc, cursor, pending, charts>>

----------------------------------------------------------------------------
(* Theme resolution alone: the statements of generate_pptx_presentation   *)
(* that resolve the theme, on any name and any override map               *)

ThemeParked == thName = "" /\ thOver = EmptyDict /\ thOut = EmptyDict

ThemeResolve ==
    /\ thOut = EmptyDict
    /\ thOut' = ResolveTheme(THEMES, thName, thOver)
    /\ THEMES' = RegistryAfterResolve(THEMES, thName, thOver)
    /\ UNCHANGED <<workspace, files, pc, kind, args, orig, file_path,
                   callVars, thName, thOver, cardVars, pureVars, tool>>

----------------------------------------------------------------------------
(* The card grid alone: the layout statements and the loop header of      *)
(* _build_cards_slide, on lists of up to MaxCards cards                   *)

CardLists ==
    LET CardPool == {[title |-> "K"], [title |-> "K", icon |-> "+"]}
    IN  UNION {[1..n -> CardPool] : n \in 0..MaxCards}

CardsParked == cardList = <<>> /\ cardPos = <<>> /\ cardGrid = <<0, 0>>

\* n = len(cards) is not 0: the grid is chosen
CardsLayout ==
    /\ cardGrid = <<0, 0>> /\ Len(cardList) > 0
    /\ cardGrid' = CardGridFor(Len(cardList))
    /\ UNCHANGED <<cardList, cardPos, renderVars, themeVars, pureVars, tool>>

\* one iteration of `for idx, card in enumerate(cards)`
CardsPlace ==
    /\ cardGrid # <<0, 0>>
    /\ Len(cardPos) < Len(CardsKept(cardList))
    /\ LET idx == Len(cardPos)
           cell == CardCell(idx, cardGrid[1])
       IN  cardPos' = Append(cardPos,
                             [idx |-> idx, row |-> cell[1], col |-> cell[2],
                              card |-> CardsKept(cardList)[idx + 1]])
    /\ UNCHANGED <<cardList, cardGrid, renderVars, themeVars, pureVars, tool>>

----------------------------------------------------------------------------
(* One function alone: a builder or a helper called once on arguments     *)
(* drawn from small sets.  pureIn is the call, [fn, its arguments];       *)
(* pureOut is [done] and, once the call was made, what it produced.       *)

PureParked == pureIn = [fn |-> "none"] /\ pureOut = [done |-> FALSE]

\* the calls made
PureInputs ==
    LET StatPool == {[value |-> "42", label |-> "Users"],
                     [value |-> "7", icon |-> "+", description |-> "more"]}
        StepPool == {[title |-> "Plan"],
                     [title |-> "Ship", time_label |-> "Q2",
                      description |-> "beta"]}
        Slides ==
            {[slide_type |-> "cards", title |-> "T", cards |-> c] :
                c \in CardLists}
            \cup {[slide_type |-> "stats", title |-> "T", stats |-> c] :
                    c \in UNION {[1..n -> StatPool] : n \in 0..MaxStats}}
            \cup {[slide_type |-> "timeline", title |-> "T", steps |-> c] :
                    c \in UNION {[1..n -> StepPool] : n \in 0..MaxSteps}}
            \cup {[slide_type |-> t, title |-> "T"] :
                    t \in {"cards", "stats", "timeline"}}
            \* cards and columns with every optional field
            \cup {[slide_type |-> t, title |-> "T",
                    cards |-> [i \in 1..n |-> c],
                    columns |-> [i \in 1..n |-> c]] :
                    t \in {"cards", "three_column"}, n \in 1..MaxCards,
                    c \in {[content |-> [text |-> "body"]],
                           [title |-> "K", content |-> [str |-> "body"]],
                           [title |-> "K", icon |-> "+",
                            content |-> [text |-> "body"]]}}
            \* a timeline of sixty steps: no cap is applied to the list
            \cup {[slide_type |-> "timeline", title |-> "T",
                    steps |-> [i \in 1..60 |-> s]] : s \in StepPool}
        StopPool == {[pos |-> 25, color |-> "FF0000"],
                     [pos |-> 50, color |-> "00AA00"],
                     [pos |-> 75, color |-> "0066CC"]}
        SeriesPool == {[name |-> "s1", values |-> <<1, 2>>],
                       [name |-> "s2", values |-> <<3, 4>>],
                       [name |-> "s3", values |-> <<5, 6, 7>>,
                        x_values |-> <<10, 20, 30>>]}
        ChartConfigs ==
            {[chart_type |-> t, categories |-> c, series |-> sr] :
                t \in {"pie", "doughnut", "scatter", "stacked_bar", "bar",
                       "line", "area", "bar_horizontal"},
                c \in {<<>>, <<"a", "b">>},
                sr \in UNION {[1..k -> SeriesPool] : k \in 1..MaxSeries}}
        \* cell values of 0, 2, 13 and 47 characters, the ints 0 and
        \* 1234567; rows of one and of two cells
        Vals == {[str |-> ""], [str |-> "ab"], [str |-> "quarterly sum"],
                 [str |-> "a cell text that is longer than the widest col."],
                 [num |-> 0], [num |-> 1234567]}
        Rows == {<<v>> : v \in Vals}
                \cup {<<[str |-> "ab"], [num |-> 1234567]>>}
        FourRows == [r \in 1..4 |-> <<[str |-> "ab"]>>]
        Opt(key, v) == {EmptyDict, key :> v}
        Sheets ==
            {DictMerge([name |-> "S", data |-> d], w) :
                d \in UNION {[1..n -> Rows] : n \in 0..MaxRows},
                w \in Opt("column_widths", <<12, 30>>)
                      \cup {[column_widths |-> <<>>]}}
            \cup {DictMerge(DictMerge(DictMerge(
                       [name |-> "S", data |-> FourRows], h), ds), sc) :
                    h \in Opt("header_style", EmptyDict),
                    ds \in Opt("data_style", [font_color |-> "red"]),
                    sc \in Opt("stripe_colors", <<"FF0000", "EEEEEE">>)}
        \* factors in eighths: -0.5, 0, 0.25, 0.5, 0.75, 1, 1.5, 2
        Factors8 == {0 - 4, 0, 2, 4, 6, 8, 12, 16}
    IN  {[fn |-> "slide", slide_data |-> d] : d \in Slides}
        \cup {[fn |-> "sheet", sheet_info |-> d] : d \in Sheets}
        \cup {[fn |-> "_parse_color", color_str |-> c, default |-> d] :
                c \in DOMAIN ColorText, d \in {"333333", "000000"}}
        \cup {[fn |-> f, hex_color |-> c, factor8 |-> k] :
                f \in {"_darken", "_lighten"},
                c \in {"#FFFFFF", "#000000", "#1A2B3C", "#80ff00", "FF0000"},
                k \in Factors8}
        \cup {[fn |-> f, chart_config |-> c] :
                f \in {"_generate_chart_image", "_add_native_chart"},
                c \in ChartConfigs}
        \cup {[fn |-> "_apply_gradient_fill", color_start |-> "#000000",
                color_end |-> e, extra_stops |-> x] :
                e \in {"#FFFFFF", "zz"},
                x \in UNION {[1..n -> StopPool] : n \in 0..MaxStops}}

\* the body of the loop of generate_pptx_presentation on one block of an
\* empty presentation, under the default theme
LayoutBuild ==
    /\ pureIn.fn = "slide" /\ ~pureOut.done
    /\ LET r == BuildSlide(<<>>, pureIn.slide_data,
                           _get_theme(THEMES, "midnight"), workspace, files)
       IN  pureOut' = [done |-> TRUE, ok |-> r.ok, val |-> r.prs[1],
                       count |-> Len(r.prs)]
    /\ UNCHANGED <<renderVars, themeVars, cardVars, tool, pureIn>>

\* the body of the sheet loop of generate_excel_document on one sheet,
\* up to the column widths
SheetBuild ==
    /\ pureIn.fn = "sheet" /\ ~pureOut.done
    /\ pureOut' = [done |-> TRUE, ok |-> ~SheetRaises(pureIn.sheet_info),
                   val |-> BuildSheet(pureIn.sheet_info)]
    /\ UNCHANGED <<renderVars, themeVars, cardVars, tool, pureIn>>

\* one call of _apply_gradient_fill
GradientFill ==
    /\ pureIn.fn = "_apply_gradient_fill" /\ ~pureOut.done
    /\ \E gs_lst \in {"found", "raises"} :
          LET r == _apply_gradient_fill(pureIn.color_start, pureIn.color_end,
                                        pureIn.extra_stops, gs_lst)
          IN  pureOut' = [done |-> TRUE, ok |-> r.ok, val |-> r.stops]
    /\ UNCHANGED <<renderVars, themeVars, cardVars, tool, pureIn>>

\* one call of _generate_chart_image, up to the saving of the figure
ChartRender ==
    /\ pureIn.fn = "_generate_chart_image" /\ ~pureOut.done
    /\ LET r == _generate_chart_image(pureIn.chart_config)
       IN  pureOut' = [done |-> TRUE, ok |-> r.ok, val |-> r.calls]
    /\ UNCHANGED <<renderVars, themeVars, cardVars, tool, pureIn>>

\* one call of _add_native_chart with its default frame
ChartNative ==
    /\ pureIn.fn = "_add_native_chart" /\ ~pureOut.done
    /\ LET ds == _add_native_chart(pureIn.chart_config, In(1000), In(2000),
                                   In(8000), In(4500))
       IN  pureOut' = [done |-> TRUE, ok |-> ~ChartRaises(pureIn.chart_config),
                       val |-> ds[1].text]
    /\ UNCHANGED <<renderVars, themeVars, cardVars, tool, pureIn>>

\* one call of _parse_color
ParseColor ==
    /\ pureIn.fn = "_parse_color" /\ ~pureOut.done
    /\ pureOut' = [done |-> TRUE, ok |-> TRUE,
                   val |-> _parse_color(pureIn.color_str, pureIn.default)]
    /\ UNCHANGED <<renderVars, themeVars, cardVars, tool, pureIn>>

\* one call of _darken
Darken ==
    /\ pureIn.fn = "_darken" /\ ~pureOut.done
    /\ pureOut' = [done |-> TRUE, ok |-> TRUE,
                   val |-> _darken(pureIn.hex_color, pureIn.factor8)]
    /\ UNCHANGED <<renderVars, themeVars, cardVars, tool, pureIn>>

\* one call of _lighten
Lighten ==
    /\ pureIn.fn = "_lighten" /\ ~pureOut.done
    /\ pureOut' = [done |-> TRUE, ok |-> TRUE,
                   val |-> _lighten(pureIn.hex_color, pureIn.factor8)]
    /\ UNCHANGED <<renderVars, themeVars, cardVars, tool, pureIn>>

----------------------------------------------------------------------------
(* manager.py: one call of execute_tool_call.  tool holds the call:       *)
(* name and outcome are the tool name and what the tool function does on  *)
(* the parameters given ("return", an "Exception", or a "BaseException"   *)
(* that is no Exception, such as KeyboardInterrupt or SystemExit); pc is  *)
(* the position of the calling thread; stop is stop_event; spinner is the *)
(* animation thread ("none", "running", "ended") and frame the index of   *)
(* the frame it shows, idx % 4; value is what the tool returned; result   *)
(* is how the call ended, [out, value], out "return" or "raise".          *)

ToolParked == tool = [pc |-> "idle"]

\* _dispatch_tool: how the call of the handler ends.  Two names of the
\* dispatch map call functions the module does not import (NameError); a
\* name the map does not hold returns the error record of an unknown tool
_dispatch_tool(tool_name, outcome) ==
    LET dispatch_map ==
            {"raw_web_browser", "perform_searchapi_search",
             "perform_bing_search", "perform_google_search", "search_scira",
             "get_ip_geolocation", "generate_word_document",
             "generate_excel_document", "generate_pptx_presentation",
             "create_file", "read_file", "update_file", "delete_file",
             "create_directory", "list_directory", "rename_file",
             "copy_file", "move_file", "delete_directory",
             "get_current_time"}
    IN  IF tool_name \in {"perform_bing_search", "perform_google_search"}
        THEN [out |-> "Exception", value |-> ""]
        ELSE IF tool_name \notin dispatch_map \cup {"call_weather_api"}
        THEN [out |-> "return", value |-> "Unknown tool"]
        ELSE [out |-> outcome,
              value |-> IF outcome = "return" THEN "result" ELSE ""]

\* `with Live(..) as live:` and anim_thread.start()
ToolStart ==
    /\ tool.pc = "try"
    /\ tool' = [tool EXCEPT
                  !.spinner = "running",
                  !.pc = IF tool.name = "run_terminal_command"
                         THEN "set" ELSE "dispatch"]
    /\ UNCHANGED <<renderVars, themeVars, cardVars, pureVars>>

\* result = _dispatch_tool(tool_name, tool_params): the statement
\* completes, or the exception leaves the with block; one that is no
\* Exception passes the except clause and the call ends by raising it
ToolDispatch ==
    /\ tool.pc = "dispatch"
    /\ LET r == _dispatch_tool(tool.name, tool.outcome)
       IN  tool' = CASE r.out = "return" ->
                         [tool EXCEPT !.value = r.value, !.pc = "set"]
                     [] r.out = "Exception" -> [tool EXCEPT !.pc = "except"]
                     [] OTHER ->
                         [tool EXCEPT !.pc = "done", !.result.out = "raise"]
    /\ UNCHANGED <<renderVars, themeVars, cardVars, pureVars>>

\* stop_event.set(), after the dispatch or, for run_terminal_command,
\* after time.sleep(0.6)
ToolStop ==
    /\ tool.pc = "set"
    /\ tool' = [tool EXCEPT !.stop = TRUE, !.pc = "join"]
    /\ UNCHANGED <<renderVars, themeVars, cardVars, pureVars>>

\* anim_thread.join() returns once the thread has ended; the complete
\* panel is printed, and all tools but the terminal return the result
ToolJoin ==
    /\ tool.pc = "join" /\ tool.spinner = "ended"
    /\ tool' = IF tool.name = "run_terminal_command"
               THEN [tool EXCEPT !.pc = "command"]
               ELSE [tool EXCEPT !.pc = "done",
                                 !.result = [out |-> "return",
                                             value |-> tool.value]]
    /\ UNCHANGED <<renderVars, themeVars, cardVars, pureVars>>

\* result = run_terminal_command(**tool_params) and the return
ToolCommand ==
    /\ tool.pc = "command"
    /\ tool' = CASE tool.outcome = "return" ->
                     [tool EXCEPT !.pc = "done",
                                  !.result = [out |-> "return",
                                              value |-> "result"]]
                 [] tool.outcome = "Exception" -> [tool EXCEPT !.pc = "except"]
                 [] OTHER ->
                     [tool EXCEPT !.pc = "done", !.result.out = "raise"]
    /\ UNCHANGED <<renderVars, themeVars, cardVars, pureVars>>

\* except Exception: stop_event.set() and the error record
ToolExcept ==
    /\ tool.pc = "except"
    /\ tool' = [tool EXCEPT
                  !.stop = TRUE, !.pc = "done",
                  !.result = [out |-> "return",
                              value |-> "Tool execution error"]]
    /\ UNCHANGED <<renderVars, themeVars, cardVars, pureVars>>

\* one iteration of the loop of _run_spinner_animation
SpinnerFrame ==
    /\ tool.spinner = "running" /\ ~tool.stop
    /\ tool' = [tool EXCEPT !.frame = (@ + 1) % 4]
    /\ UNCHANGED <<renderVars, themeVars, cardVars, pureVars>>

\* the loop condition finds the event set: the thread ends
SpinnerExit ==
    /\ tool.spinner = "running" /\ tool.stop
    /\ tool' = [tool EXCEPT !.spinner = "ended"]
    /\ UNCHANGED <<renderVars, themeVars, cardVars, pureVars>>

----------------------------------------------------------------------------
(* Specifications *)

\* nobody calls a generator
CallsParked ==
    /\ InitCalls /\ workspace = "/ws"
    /\ kind = [p \in Procs |-> "none"]
    /\ args = [p \in Procs |-> <<>>]
    /\ orig = args
    /\ file_path = [p \in Procs |-> ""]

\* one caller, with a list for one of the three generators
Init ==
    /\ InitCalls
    /\ LET PoolOf(k) == CASE k = "pptx" -> PptxBlocks
                          [] k = "word" -> WordBlocks
                          [] OTHER -> ExcelSheets
           OutPath(k) == CASE k = "pptx" -> "deck.pptx"
                           [] k = "word" -> "out/report.docx"
                           [] OTHER -> "book.xlsx"
       IN  \E k \in {"pptx", "word", "excel"} :
              /\ kind = [p \in Procs |-> IF p = 1 THEN k ELSE "none"]
              /\ \E lst \in Lists(PoolOf(k)) :
                    args = [p \in Procs |-> IF p = 1 THEN lst ELSE <<>>]
              /\ file_path = [p \in Procs |->
                                IF p = 1 THEN OutPath(k) ELSE ""]
    /\ orig = args
    /\ ThemeParked /\ CardsParked /\ PureParked /\ ToolParked

Next ==
    \/ PptxCall(1)
    \/ PptxBlock(1)
    \/ PptxSave(1)
    \/ WordCall(1)
    \/ WordBlock(1)
    \/ WordChartGenerate(1)
    \/ WordChartEmbed(1)
    \/ WordSave(1)
    \/ ExcelCall(1)
    \/ ExcelSheet(1)
    \/ ExcelSave(1)

Spec == Init /\ [][Next]_vars

\* two callers of generate_word_document at the same time, each with its
\* own output path
InitConc ==
    /\ InitCalls /\ workspace = "/ws"
    /\ kind = [p \in Procs |-> "word"]
    /\ args \in [Procs -> ChartLists]
    /\ orig = args
    /\ file_path = [p \in Procs |-> IF p = 1 THEN "a.docx" ELSE "b.docx"]
    /\ ThemeParked /\ CardsParked /\ PureParked /\ ToolParked

NextConc ==
    \E p \in Procs :
        \/ WordCall(p)
        \/ WordBlock(p)
        \/ WordChartGenerate(p)
        \/ WordChartEmbed(p)
        \/ WordSave(p)

SpecConc == InitConc /\ [][NextConc]_vars

InitTheme ==
    /\ CallsParked /\ CardsParked /\ PureParked /\ ToolParked
    /\ thName \in DOMAIN THEMES0 \cup {"neon", ""}
    \* override maps: a registered key, another, a key no preset has
    /\ thOver \in UNION {[ks -> {"#111111", "zz"}] :
                            ks \in SUBSET {"primary", "text_dark", "brand"}}
    /\ thOut = EmptyDict

NextTheme == ThemeResolve

SpecTheme == InitTheme /\ [][NextTheme]_vars

InitCards ==
    /\ CallsParked /\ ThemeParked /\ PureParked /\ ToolParked
    /\ cardList \in CardLists
    /\ cardPos = <<>>
    /\ cardGrid = <<0, 0>>

NextCards == CardsLayout \/ CardsPlace

SpecCards == InitCards /\ [][NextCards]_vars

InitPure ==
    /\ CallsParked /\ ThemeParked /\ CardsParked /\ ToolParked
    /\ pureIn \in PureInputs
    /\ pureOut = [done |-> FALSE]

NextPure ==
    \/ LayoutBuild
    \/ SheetBuild
    \/ GradientFill
    \/ ChartRender
    \/ ChartNative
    \/ ParseColor
    \/ Darken
    \/ Lighten

SpecPure == InitPure /\ [][NextPure]_vars

\* one call of execute_tool_call, for a tool of each kind and each way
\* the tool may end
InitTool ==
    /\ CallsParked /\ ThemeParked /\ CardsParked /\ PureParked
    /\ tool \in [name : {"run_terminal_command", "generate_pptx_presentation",
                          "get_current_time", "call_weather_api",
                          "perform_bing_search", "no_such_tool"},
                  outcome : {"return", "Exception", "BaseException"},
                  pc : {"try"}, stop : {FALSE}, spinner : {"none"},
                  frame : {0}, value : {""},
                  result : {[out |-> "none", value |-> ""]}]

NextTool ==
    \/ ToolStart
    \/ ToolDispatch
    \/ ToolStop
    \/ ToolJoin
    \/ ToolCommand
    \/ ToolExcept
    \/ SpinnerFrame
    \/ SpinnerExit

\* the calling thread goes on as long as it has a statement to execute
\* (every tool returns or raises), and the spinner thread, which sleeps
\* 0.15 s between two frames, is scheduled again and again
SpecTool ==
    /\ InitTool /\ [][NextTool]_vars
    /\ WF_vars(ToolStart \/ ToolDispatch \/ ToolStop \/ ToolJoin
               \/ ToolCommand \/ ToolExcept)
    /\ WF_vars(SpinnerFrame \/ SpinnerExit)

----------------------------------------------------------------------------
(* Properties *)

PptxCallers == {p \in Procs : kind[p] = "pptx"}

\* the path a call of p saves to, and what is there ("absent" if nothing)
FullPath(p) == JoinPath(workspace, file_path[p])
PathState(fs, path) == IF path \in DOMAIN fs THEN fs[path] ELSE "absent"

\* the call of p has ended without a success record
Failed(p) == pc[p] = "idle" /\ result[p].out # "none" /\ ~result[p].success

\* the positions on a slide of the page number of _add_slide_footer
FooterDraws(slide) ==
    {j \in 1..Len(slide) :
        slide[j].op = "text" /\ slide[j].x = In(12200) /\ slide[j].y = In(7000)}

C1Inv(p) ==
    /\ pc[p] = "blocks" => Len(doc[p]) = cursor[p]
    /\ Len(doc[p]) \in {cursor[p], cursor[p] + 1}
    /\ \A i \in 1..Len(doc[p]) : \A j \in FooterDraws(doc[p][i]) :
          doc[p][i][j].text = ToString(i)
    /\ \A i \in 1..cursor[p] :
          doc[p][i] = BuildSlide(SubSeq(doc[p], 1, i - 1), args[p][i],
                                 theme[p], workspace, DOMAIN files).prs[i]
    /\ result[p].success => result[p].slides_count = Len(args[p])

C1Step(p) ==
    pc[p] = "blocks" =>
        /\ Len(doc'[p]) >= Len(doc[p])
        /\ cursor'[p] \in {cursor[p], cursor[p] + 1}
        /\ SubSeq(doc'[p], 1, Len(doc[p])) = doc[p]

\* C1: generate_pptx_presentation makes one forward pass over the list:
\* while the loop runs the slide count equals the number of blocks
\* processed, slide i is what the builder of block i drew, the count and
\* the slides already drawn never change, every page number drawn by
\* _add_slide_footer is the 1-based position of its slide, and the
\* slides_count returned is the length of the list.
C1_SinglePass ==
    /\ [](\A p \in PptxCallers : C1Inv(p))
    /\ [][\A p \in PptxCallers : C1Step(p)]_vars

\* a call on two blocks has returned, and its second slide carries page 2
C1_Witness ==
    \E p \in PptxCallers :
        /\ result[p].success /\ result[p].slides_count = 2
        /\ \E j \in FooterDraws(doc[p][2]) : doc[p][2][j].text = "2"

KnownWordTypes ==
    {"cover_page", "toc", "heading", "paragraph", "rich_paragraph",
     "bullet_list", "numbered_list", "table", "image", "chart", "quote",
     "code_block", "horizontal_rule", "page_break", "section_break",
     "watermark"}

\* C2: a first block whose tag is not registered is rendered as the
\* default builder renders it: a presentation block as _build_content_slide
\* does, a Word block as the paragraph branch does.
C2_UnknownRendered ==
    \A p \in Procs :
        (pc[p] = "blocks" /\ cursor[p] = 1) =>
            /\ (kind[p] = "pptx"
                /\ LowerStrip(Get(orig[p][1], "slide_type", "content"))
                     \notin DOMAIN SLIDE_BUILDERS)
               => doc[p] = _build_content_slide(<<>>, orig[p][1], theme[p],
                               workspace, DOMAIN files).prs
            /\ (kind[p] = "word"
                /\ Get(args[p][1], "type", "paragraph") \notin KnownWordTypes)
               => doc[p] = WordFurniture(settings[p])
                           \o WordBlockElems(
                                  SetItem(args[p][1], "type", "paragraph"),
                                  settings[p], workspace, DOMAIN files)

\* C3: every call ends with a success record or an error record, never
\* with an exception that reaches the caller.
C3_AlwaysRecord ==
    \A p \in Procs :
        /\ result[p].out # "raise"
        /\ result[p].out = "return" =>
              (result[p].success <=> result[p].error = "")

C4Inv(p) ==
    /\ saves[p] <= 1
    /\ saves[p] = 1 => pc[p] = "idle" /\ cursor[p] = Len(args[p])
    /\ (Failed(p) /\ cursor[p] < Len(args[p])) => saves[p] = 0

C4Step(p) ==
    /\ (pc[p] # "idle" /\ saves'[p] # saves[p]) =>
          pc[p] = "blocks" /\ cursor[p] = Len(args[p]) /\ saves[p] = 0
    /\ PathState(files', FullPath(p)) # PathState(files, FullPath(p)) =>
          saves'[p] = saves[p] + 1
    /\ (pc[p] # "idle" /\ pc'[p] = "idle" /\ cursor[p] < Len(args[p])) =>
          /\ saves'[p] = 0
          /\ cursor'[p] = cursor[p]
          /\ PathState(files', FullPath(p)) = PathState(files, FullPath(p))
    /\ cursor'[p] > cursor[p] => pc[p] # "idle"

\* C4: in every call of the three generators save is invoked at most
\* once, and only when the loop has run over the whole list; when a block
\* fails save is not invoked, the cursor stays on that block, and what is
\* at the output path is what was there before.
C4_SaveLast ==
    /\ [](\A p \in Procs : C4Inv(p))
    /\ [][\A p \in Procs : C4Step(p)]_vars

\* the second block of a list failed: nothing was saved and there is no
\* file at the output path
C4_Witness ==
    \E p \in Procs :
        /\ Failed(p) /\ cursor[p] = 1 /\ Len(args[p]) = 2
        /\ saves[p] = 0
        /\ FullPath(p) \notin DOMAIN files

\* C5: the chart image paths written by two calls that are running are
\* distinct, and so are the paths of two charts of one call.
C5_DistinctChartPaths ==
    \A p \in Procs, q \in Procs :
        (pc[p] # "idle" /\ pc[q] # "idle") =>
            \A i \in DOMAIN charts[p], j \in DOMAIN charts[q] :
                (p # q \/ i # j) => charts[p][i] # charts[q][j]

\* C6: the list a caller passed to generate_pptx_presentation equals the
\* list as the caller built it.
C6_BlocksUnchanged == \A p \in PptxCallers : args[p] = orig[p]

\* C7: the slides of a call that returned are those of a first call with
\* the same theme on a list equal to the one the caller built: slide i is
\* what the builder draws for block i of that list.
C7_NoCarryOver ==
    \A p \in PptxCallers :
        (pc[p] = "idle" /\ result[p].success) =>
            /\ Len(doc[p]) = Len(orig[p])
            /\ \A i \in 1..Len(orig[p]) :
                  doc[p][i] = BuildSlide(SubSeq(doc[p], 1, i - 1), orig[p][i],
                                         theme[p], workspace,
                                         DOMAIN files).prs[i]

RegisteredNames ==
    {"ocean", "forest", "sunset", "royal", "midnight", "coral", "tech",
     "elegant"}

\* C8: the resolved theme has the keys of the preset and of the
\* overrides, with the override's value where there is one and the
\* preset's elsewhere; the preset is the one registered under the name, or
\* 'midnight' when the name is not registered.
C8_ResolvedTheme ==
    thOut # EmptyDict =>
        LET preset == IF thName \in RegisteredNames THEN THEMES0[thName]
                      ELSE THEMES0["midnight"]
        IN  /\ DOMAIN thOut = DOMAIN preset \cup DOMAIN thOver
            /\ \A k \in DOMAIN thOut :
                  thOut[k] = IF k \in DOMAIN thOver THEN thOver[k]
                             ELSE preset[k]

\* an unregistered name resolved with an override of a preset key and of
\* a key no preset has
C8_Witness ==
    /\ thOut # EmptyDict /\ thName = "neon"
    /\ {"primary", "brand"} \subseteq DOMAIN thOver

\* C9: the registry THEMES equals its initial value, and the theme of a
\* running presentation call is the one resolved at its start.
C9_RegistryUnchanged ==
    /\ THEMES = THEMES0
    /\ \A p \in PptxCallers :
          pc[p] = "blocks" =>
              theme[p] = ResolveTheme(THEMES0,
                             Get(settings[p], "theme", "midnight"),
                             Get(settings[p], "custom_colors", EmptyDict))

\* a presentation call with custom_colors has drawn two slides, filled
\* in defaults from its theme and returned
C9_Witness ==
    \E p \in PptxCallers :
        /\ result[p].success /\ cursor[p] = 2
        /\ "custom_colors" \in DOMAIN settings[p]
        /\ args[p] # orig[p]

\* C10: the grid is (N,1) for 1 <= N <= 3 cards, (2,2) for 4 and (3,2)
\* for 5 and more; at most the first six cards are placed, in their
\* order, card idx at row idx div cols and column idx mod cols.
C10_CardGrid ==
    LET N == Len(cardList)
    IN  /\ cardGrid # <<0, 0>> =>
              /\ N \in 1..3 => cardGrid = <<N, 1>>
              /\ N = 4 => cardGrid = <<2, 2>>
              /\ N >= 5 => cardGrid = <<3, 2>>
        /\ Len(cardPos) <= 6 /\ Len(cardPos) <= N
        /\ \A j \in 1..Len(cardPos) :
              /\ cardPos[j].idx = j - 1
              /\ cardPos[j].card = cardList[j]
              /\ cardPos[j].row = (j - 1) \div cardGrid[1]
              /\ cardPos[j].col = (j - 1) % cardGrid[1]

\* eight cards were supplied and six are placed, the last at row 1,
\* column 2
C10_Witness ==
    /\ Len(cardList) = 8 /\ Len(cardPos) = 6
    /\ cardList[6] # cardList[7]
    /\ cardPos[6].row = 1 /\ cardPos[6].col = 2

\* the slide a builder drew for the block of the call, once it was built
BuiltSlide(slide_type) ==
    IF pureIn.fn = "slide" /\ pureOut.done
       /\ pureIn.slide_data["slide_type"] = slide_type
    THEN pureOut.val ELSE <<>>

\* the list the block of the call holds under key, [] when it has none
ListOf(key) == Get(pureIn.slide_data, key, <<>>)

\* the card rectangles of a built slide: the rounded rectangles with a
\* border (the title bar has none)
CardRects(slide) ==
    LET IsCard(d) == d.op = "rounded_rect" /\ d.color2 # ""
    IN  SelectSeq(slide, IsCard)

\* the bottom edge of the title bar and the top edge of the footer bar
TitleBottom(slide) == slide[2].y + slide[2].h
FooterTop(slide) == slide[Len(slide) - 2].y

\* C11: for N >= 1 cards _build_cards_slide draws min(N,6) card
\* rectangles of positive size, all (12.3 - (cols-1)*0.35)/cols wide and
\* equally high, inside x in [0.5, 12.8] between the title bar and the
\* footer bar, any two of them at least the 0.35 gap apart.
C11_CardRects ==
    LET slide == BuiltSlide("cards")
        N == Len(ListOf("cards"))
        rs == CardRects(slide)
        cols == IF N <= 3 THEN N ELSE IF N = 4 THEN 2 ELSE 3
    IN  slide # <<>> /\ N >= 1 =>
          /\ Len(rs) = Min(N, 6)
          /\ \A i \in 1..Len(rs) :
                /\ rs[i].w > 0 /\ rs[i].h > 0
                /\ rs[i].w * cols = In(12300) - (cols - 1) * In(350)
                /\ rs[i].h = rs[1].h
                /\ rs[i].x >= In(500) /\ rs[i].x + rs[i].w <= In(12800)
                /\ rs[i].y >= TitleBottom(slide)
                /\ rs[i].y + rs[i].h <= FooterTop(slide)
          /\ \A i, j \in 1..Len(rs) :
                i < j =>
                  \/ rs[i].x + rs[i].w + In(350) <= rs[j].x
                  \/ rs[i].y + rs[i].h + In(350) <= rs[j].y

\* eight cards were supplied: six rectangles in two rows were drawn, the
\* sixth ending at x = 12.8
C11_Witness ==
    LET rs == CardRects(BuiltSlide("cards"))
    IN  /\ pureIn.fn = "slide" /\ pureIn.slide_data["slide_type"] = "cards"
        /\ Len(ListOf("cards")) = 8
        /\ Len(rs) = 6
        /\ rs[6].x + rs[6].w = In(12800) /\ rs[6].y > rs[1].y

\* the texts a slide shows in a given font size, in drawing order
TextsOfSize(slide, font_size) ==
    LET IsOne(d) == d.op = "text" /\ d.font_size = font_size
        ds == SelectSeq(slide, IsOne)
    IN  [i \in 1..Len(ds) |-> ds[i].text]

\* C12: for N >= 1 stats _build_stats_slide draws m = min(N,5) cards, for
\* the first m stats, in one row, each (12.3 - (m-1)*0.4)/m wide, from
\* x = 0.5 left to right without overlap, the last ending at x = 12.8;
\* a sixth stat and the following are dropped and nothing is raised.
C12_StatCards ==
    LET slide == BuiltSlide("stats")
        stats == ListOf("stats")
        m == Min(Len(stats), 5)
        rs == CardRects(slide)
    IN  slide # <<>> /\ Len(stats) >= 1 =>
          /\ pureOut.ok
          /\ Len(rs) = m
          /\ TextsOfSize(slide, 36) = [i \in 1..m |-> stats[i].value]
          /\ \A i \in 1..m :
                /\ rs[i].w * m = In(12300) - (m - 1) * In(400)
                /\ rs[i].y = rs[1].y /\ rs[i].h = rs[1].h
          /\ rs[1].x = In(500)
          /\ \A i \in 1..(m - 1) : rs[i].x + rs[i].w < rs[i + 1].x
          /\ rs[m].x + rs[m].w = In(12800)

\* six stats were supplied, the fifth and the sixth different: five cards
\* were drawn
C12_Witness ==
    LET slide == BuiltSlide("stats")
    IN  /\ slide # <<>>
        /\ Len(ListOf("stats")) = 6
        /\ ListOf("stats")[5] # ListOf("stats")[6]
        /\ Len(CardRects(slide)) = 5

\* the positions in a slide of its marker circles, in drawing order
MarkerAt(slide) ==
    LET IsMarker(i) == slide[i].op = "oval"
    IN  SelectSeq([i \in 1..Len(slide) |-> i], IsMarker)

\* the text regions of step k (from 1) of a timeline slide: the text
\* boxes drawn after the marker of the step and its number, before the
\* next marker or the footer
StepRegions(slide, k) ==
    LET at == MarkerAt(slide)
        last == IF k < Len(at) THEN at[k + 1] - 1 ELSE Len(slide) - 3
    IN  {slide[j] : j \in {j \in (at[k] + 3)..last : slide[j].op = "textbox"}}

\* C13: for N >= 1 steps the marker of step i (from 0) is centred at
\* x = 0.8 + i*(11.7/N) + (11.7/N)/2 and vertically on the axis bar; the
\* title, time-label and description regions of even steps end above the
\* axis bar, those of odd steps start below it, and none of them meets a
\* marker circle.
C13_Timeline ==
    LET slide == BuiltSlide("timeline")
        steps == ListOf("steps")
        N == Len(steps)
        axis == slide[6]
        at == MarkerAt(slide)
    IN  slide # <<>> /\ N >= 1 =>
          /\ axis.op = "bar" /\ axis.w = In(11700)
          /\ Len(at) = N
          /\ \A k \in 1..N :
                LET c == slide[at[k]]
                    regs == StepRegions(slide, k)
                IN  /\ N * (2 * c.x + c.w)
                         = 2 * N * In(800) + (2 * (k - 1) + 1) * In(11700)
                    /\ 2 * c.y + c.h = 2 * axis.y + axis.h
                    /\ Cardinality(regs) =
                         1 + (IF Get(steps[k], "time_label", "") # ""
                              THEN 1 ELSE 0)
                           + (IF Get(steps[k], "description", "") # ""
                              THEN 1 ELSE 0)
                    /\ \A r \in regs :
                          /\ (k - 1) % 2 = 0 => r.y + r.h <= axis.y
                          /\ (k - 1) % 2 = 1 => r.y >= axis.y + axis.h
                          /\ \A j \in 1..N :
                                \/ r.y + r.h <= slide[at[j]].y
                                \/ r.y >= slide[at[j]].y + slide[at[j]].h

\* a timeline of five steps, the second and the third with a time label
\* and a description, was built
C13_Witness ==
    LET slide == BuiltSlide("timeline")
    IN  /\ slide # <<>>
        /\ Len(ListOf("steps")) = 5
        /\ Cardinality(StepRegions(slide, 2)) = 3
        /\ Cardinality(StepRegions(slide, 3)) = 3

\* C14: after a call of _apply_gradient_fill with valid colours, with or
\* without extra stops, the stop list starts at position 0, ends at
\* position 1 and is in ascending order of position, the extra stops
\* lying between the two base stops.
C14_GradientStops ==
    pureIn.fn = "_apply_gradient_fill" /\ pureOut.done
    /\ _hex(pureIn.color_end) =>
       LET stops == pureOut.val
           n == Len(stops)
       IN  /\ pureOut.ok
           /\ n = 2 + Len(pureIn.extra_stops)
           /\ stops[1].pos = 0 /\ stops[n].pos = 100000
           /\ \A i \in 1..(n - 1) : stops[i].pos <= stops[i + 1].pos

\* the chart of the call, when the call is one of the two chart paths
ChartOf(fn, chart_types) ==
    IF pureIn.fn = fn /\ pureOut.done
       /\ pureIn.chart_config["chart_type"] \in chart_types
    THEN pureIn.chart_config ELSE EmptyDict

\* C15: for a pie or doughnut chart with two or more series only the
\* values of series[0] are handed on, with the categories as labels: one
\* pie call on the raster path, one data series on the native path.
C15_PieFirstSeriesOnly ==
    LET raster == ChartOf("_generate_chart_image", {"pie", "doughnut"})
        native == ChartOf("_add_native_chart", {"pie", "doughnut"})
    IN  /\ raster # EmptyDict /\ Len(raster["series"]) >= 2 /\ pureOut.ok =>
              /\ Len(pureOut.val) = 1
              /\ pureOut.val[1].call = "pie"
              /\ pureOut.val[1].y = raster["series"][1]["values"]
              /\ pureOut.val[1].labels = raster["categories"]
        /\ native # EmptyDict /\ Len(native["series"]) >= 2 =>
              /\ Len(pureOut.val.series) = 1
              /\ pureOut.val.series[1].values = native["series"][1]["values"]
              /\ pureOut.val.categories = native["categories"]

\* the sum of the values of the first k series for category c (from 1)
RECURSIVE SumBelow(_, _, _)
SumBelow(series_list, k, c) ==
    IF k = 0 THEN 0
    ELSE SumBelow(series_list, k - 1, c) + series_list[k]["values"][c]

\* C16: in a stacked_bar chart over C categories whose series all have at
\* least C values, the bar of series k for category c has height
\* values_k[c] and starts at the sum of values_j[c] over the series j
\* before k, so that the last bar of the category ends at the sum over
\* all series.
C16_StackedBars ==
    LET cfg == ChartOf("_generate_chart_image", {"stacked_bar"})
        series_list == cfg["series"]
        C == Len(cfg["categories"])
        calls == pureOut.val
    IN  /\ cfg # EmptyDict
        /\ \A k \in 1..Len(series_list) : Len(series_list[k]["values"]) >= C
        => /\ pureOut.ok
           /\ Len(calls) = Len(series_list)
           /\ \A k \in 1..Len(calls) :
                 /\ calls[k].call = "bar"
                 /\ Len(calls[k].y) = C /\ Len(calls[k].bottom) = C
                 /\ \A c \in 1..C :
                       /\ calls[k].y[c] = series_list[k]["values"][c]
                       /\ calls[k].bottom[c] = SumBelow(series_list, k - 1, c)
           /\ \A c \in 1..C :
                 calls[Len(calls)].bottom[c] + calls[Len(calls)].y[c]
                   = SumBelow(series_list, Len(series_list), c)

\* the series [1,2] and [3,4] over two categories were stacked: the
\* second bar of the first category starts at 1 and ends at 4
C16_Witness ==
    LET cfg == ChartOf("_generate_chart_image", {"stacked_bar"})
    IN  /\ cfg # EmptyDict
        /\ cfg["categories"] = <<"a", "b">>
        /\ Len(cfg["series"]) = 2
        /\ cfg["series"][1]["values"] = <<1, 2>>
        /\ cfg["series"][2]["values"] = <<3, 4>>
        /\ Len(pureOut.val) = 2
        /\ pureOut.val[2].bottom[1] = 1
        /\ pureOut.val[2].bottom[1] + pureOut.val[2].y[1] = 4

\* the points a scatter series stands for: (x_values[i], values[i]) when
\* x-values are supplied, (i, values[i]) from i = 0 otherwise
ScatterPoints(sr) ==
    [i \in 1..Len(sr["values"]) |->
       <<IF "x_values" \in DOMAIN sr THEN sr["x_values"][i] ELSE i - 1,
         sr["values"][i]>>]

\* C17: every series of a scatter chart is rendered as its n points, on
\* the raster path and on the native path, whatever the categories and
\* the other series are.
C17_ScatterPoints ==
    LET raster == ChartOf("_generate_chart_image", {"scatter"})
        native == ChartOf("_add_native_chart", {"scatter"})
    IN  /\ raster # EmptyDict =>
              /\ pureOut.ok
              /\ Len(pureOut.val) = Len(raster["series"])
              /\ \A k \in 1..Len(pureOut.val) :
                    [i \in 1..Len(pureOut.val[k].y) |->
                        <<pureOut.val[k].x[i], pureOut.val[k].y[i]>>]
                      = ScatterPoints(raster["series"][k])
        /\ native # EmptyDict =>
              /\ Len(pureOut.val.series) = Len(native["series"])
              /\ \A k \in 1..Len(pureOut.val.series) :
                    pureOut.val.series[k].points
                      = ScatterPoints(native["series"][k])

HexDigits ==
    {"0", "1", "2", "3", "4", "5", "6", "7", "8", "9",
     "a", "b", "c", "d", "e", "f", "A", "B", "C", "D", "E", "F"}

\* the characters are n hexadecimal digits
IsHex(chars, n) ==
    Len(chars) = n /\ \A i \in 1..n : chars[i] \in HexDigits

\* C18: _parse_color raises nothing and returns the six digits of
\* '#RRGGBB' or 'RRGGBB', the registered value of a named colour in any
\* letter case, and the default for the empty string, for 3-digit hex and
\* for six characters that are neither a colour name nor six hex digits.
C18_ParseColor ==
    LET chars == ColorText[pureIn.color_str]
        n == Len(chars)
        NameOf(k) == {pureIn.color_str} \cap
                     CASE k = "red" -> {"red", "Red", "RED"}
                       [] k = "darkblue" -> {"darkblue", "DarkBlue"}
                       [] OTHER -> {k}
        out == pureOut.val
    IN  pureIn.fn = "_parse_color" /\ pureOut.done =>
          /\ pureOut.ok
          /\ IsHex(chars, 6) => out = pureIn.color_str
          /\ n = 7 /\ chars[1] = "#" /\ IsHex(Tail(chars), 6) =>
                ColorText[out] = Tail(chars)
          /\ \A k \in DOMAIN NamedColors :
                NameOf(k) # {} => out = NamedColors[k]
          /\ \/ n = 0
             \/ IsHex(chars, 3)
             \/ n = 4 /\ chars[1] = "#" /\ IsHex(Tail(chars), 3)
             \/ /\ n = 6 /\ ~IsHex(chars, 6)
                /\ pureIn.color_str \notin DOMAIN NamedColors
             => out = pureIn.default

\* C19: _darken("#FFFFFF", 0.5) and _lighten("#000000", 0.5) both return
\* the string "#7F7F7F", every channel being 127.
C19_HalfGrey ==
    /\ pureIn.fn = "_darken" /\ pureIn.hex_color = "#FFFFFF"
       /\ pureIn.factor8 = 4 /\ pureOut.done
       => pureOut.val = ColorText["#7F7F7F"]
    /\ pureIn.fn = "_lighten" /\ pureIn.hex_color = "#000000"
       /\ pureIn.factor8 = 4 /\ pureOut.done
       => pureOut.val = ColorText["#7F7F7F"]

\* C20: for every 6-digit colour and every factor, also below 0 and above
\* 1, _darken and _lighten return '#' and six hexadecimal digits, the
\* digits of channel*factor (darken) or channel + (255-channel)*factor
\* (lighten) clamped to 0..255, channel by channel.
C20_ChannelsClamped ==
    LET rgb == Channels(pureIn.hex_color)
        f8 == pureIn.factor8
        Clamp(v) == IF v < 0 THEN 0 ELSE IF v > 255 THEN 255 ELSE v
        Want(i) == IF pureIn.fn = "_darken"
                   THEN Clamp(Trunc(rgb[i] * f8, 8))
                   ELSE Clamp(Trunc(8 * rgb[i] + (255 - rgb[i]) * f8, 8))
        out == pureOut.val
    IN  pureIn.fn \in {"_darken", "_lighten"} /\ pureOut.done =>
          /\ Len(out) = 7 /\ out[1] = "#" /\ IsHex(Tail(out), 6)
          /\ out = FormatHex([i \in 1..3 |-> Want(i)])

\* C21: a cards, stats or timeline block whose list is empty or absent
\* yields exactly one slide and nothing is raised: the slide holds the
\* title bar with the block's title and the footer with the slide number,
\* and no card rectangle, marker or axis between them.
C21_EmptyLists ==
    \A t \in {"cards", "stats", "timeline"} :
       LET slide == BuiltSlide(t)
           key == IF t = "timeline" THEN "steps" ELSE t
       IN  slide # <<>> /\ ListOf(key) = <<>> =>
             /\ pureOut.ok
             /\ pureOut.count = 1
             /\ Len(slide) = 8
             /\ slide[2].op = "rounded_rect" /\ slide[2].y = 0
             /\ slide[2].w = In(13333) /\ slide[2].h = In(1100)
             /\ slide[4].op = "text" /\ slide[4].text = pureIn.slide_data.title
             /\ slide[6].op = "bar" /\ slide[6].y = In(7200)
             /\ slide[8].op = "text" /\ slide[8].text = "1"
             /\ CardRects(slide) = <<>> /\ MarkerAt(slide) = <<>>

\* a timeline block without a steps key was built
C21_Witness ==
    /\ BuiltSlide("timeline") # <<>>
    /\ "steps" \notin DOMAIN pureIn.slide_data
    /\ pureOut.count = 1 /\ Len(pureOut.val) = 8

\* the save of caller p writes the file and the call returns success
SaveSucceeds(p) ==
    /\ PptxSave(p) \/ WordSave(p) \/ ExcelSave(p)
    /\ result'[p].out = "return" /\ result'[p].success

\* C22: a call of any of the three generators with an empty block list
\* reaches the save with nothing in the document but what the settings
\* put there, and the save can write the file and return success.
C22_EmptyLists ==
    \A p \in Procs :
       (pc[p] = "blocks" /\ orig[p] = <<>>) =>
          /\ LoopDone(p)
          /\ doc[p] = IF kind[p] = "word" THEN WordFurniture(settings[p])
                      ELSE <<>>
          /\ ENABLED SaveSucceeds(p)

\* the block under the cursor of caller p
BlockAt(p) == args[p][cursor[p] + 1]

\* path, joined to the workspace, names no file
Missing(path) == JoinPath(workspace, path) \notin DOMAIN files

\* the block under the cursor of caller p refers to an image file that
\* does not exist: an image slide, a slide with an image element, a Word
\* image block, a cover page with a logo
MissingImage(p) ==
    LET b == BlockAt(p)
    IN  \/ /\ kind[p] = "pptx"
           /\ \/ /\ Get(b, "slide_type", "content") = "image"
                 /\ Get(b, "image_path", "") # ""
                 /\ Missing(b["image_path"])
              \/ \E i \in DOMAIN Get(b, "elements", <<>>) :
                    /\ Get(b["elements"][i], "type", "") = "image"
                    /\ Missing(Get(b["elements"][i], "path", ""))
        \/ /\ kind[p] = "word"
           /\ \/ /\ Get(b, "type", "paragraph") = "image"
                 /\ Missing(Get(b, "path", ""))
              \/ /\ Get(b, "type", "paragraph") = "cover_page"
                 /\ Get(b, "logo_path", "") # ""
                 /\ Missing(b["logo_path"])

\* the pictures among the drawing calls of a slide or the elements of a
\* document
Pictures(seq) ==
    LET IsPicture(d) ==
            IF "op" \in DOMAIN d THEN d.op = "picture" ELSE d.el = "picture"
    IN  SelectSeq(seq, IsPicture)

\* the image elements of a slide block whose files exist
ImagesThere(b) ==
    LET There(e) == Get(e, "type", "") = "image"
                    /\ ~Missing(Get(e, "path", ""))
    IN  SelectSeq(Get(b, "elements", <<>>), There)

\* every colour of the theme of caller p is one _hex accepts
ThemeValid(p) == \A k \in DOMAIN theme[p] : _hex(theme[p][k])

C23Step(p) ==
    (/\ pc[p] = "blocks" /\ cursor[p] < Len(args[p])
     /\ MissingImage(p) /\ ThemeValid(p)) =>
       /\ cursor'[p] = cursor[p] + 1
       /\ pc'[p] = "blocks" /\ result'[p] = result[p]
       /\ kind[p] = "word" =>
             Len(Pictures(doc'[p])) = Len(Pictures(doc[p]))
       /\ kind[p] = "pptx" =>
             LET slide == doc'[p][Len(doc'[p])]
             IN  /\ Len(doc'[p]) = Len(doc[p]) + 1
                 /\ Len(Pictures(slide)) = Len(ImagesThere(BlockAt(p)))
                 /\ \A i \in 1..Len(slide) : slide[i].text # "gone.png"
                 /\ slide[2].op = "rounded_rect" /\ slide[2].h = In(1100)
                 /\ slide[Len(slide)].text = ToString(Len(doc'[p]))

\* C23: a block that refers to an image file that does not exist (an
\* image slide, an image element of a slide, a Word image block, the logo
\* of a cover page) adds no picture and raises nothing, the theme colours
\* being valid; the loop goes on with the next block, and the image slide
\* is still added with its title bar and footer.
C23_MissingImage == [][\A p \in Procs : C23Step(p)]_vars

\* a list of two image slides whose file is missing ended in success
\* with two slides, and a list of two Word image blocks whose file is
\* missing was saved with nothing but the document furniture
C23_Witness ==
    \E p \in Procs :
       /\ result[p].out = "return" /\ result[p].success
       /\ Len(orig[p]) = 2
       /\ \/ /\ kind[p] = "pptx" /\ Len(doc[p]) = 2
             /\ \A i \in 1..2 : Get(orig[p][i], "image_path", "") = "gone.png"
          \/ /\ kind[p] = "word" /\ doc[p] = WordFurniture(settings[p])
             /\ \A i \in 1..2 : Get(orig[p][i], "path", "") = "gone.png"

\* the chart blocks among the blocks caller p has processed
ChartsDone(p) ==
    LET IsChart(b) == Get(b, "type", "paragraph") = "chart"
    IN  SelectSeq(SubSeq(args[p], 1, cursor[p]), IsChart)

\* C24: when generate_word_document has processed k chart blocks, k
\* files written by that call exist under <workspace>/.charts, during
\* the call and after it returned.
C24_ChartFilesKept ==
    \A p \in Procs :
       (kind[p] = "word" /\ pc[p] \in {"blocks", "idle"}) =>
          /\ Len(charts[p]) = Len(ChartsDone(p))
          /\ Cardinality({charts[p][i] : i \in DOMAIN charts[p]}
                         \cap DOMAIN files) = Len(ChartsDone(p))

\* the sheet built for the sheet_info of the call, once it was built
BuiltSheet == pureIn.fn = "sheet" /\ pureOut.done

\* str(value) of a cell value
Stringified(value) ==
    IF IsStr(value) THEN value["str"] ELSE ToString(value["num"])

\* L for column c: the length of the longest stringified value of the
\* column, 0 when it has none
LongestIn(data, c) ==
    LET lens == {Len(Stringified(data[r][c])) :
                    r \in {r \in 1..Len(data) : c <= Len(data[r])}} \cup {0}
    IN  CHOOSE n \in lens : \A m \in lens : m <= n

C26_Stripes ==
    (BuiltSheet /\ "stripe_colors" \in DOMAIN pureIn.sheet_info) =>
       LET sc == pureIn.sheet_info["stripe_colors"]
           cells == pureOut.val.cells
       IN  /\ pureOut.ok
           /\ \A r \in 1..Len(cells) : \A c \in 1..Len(cells[r]) :
                 cells[r][c].bg =
                    IF r = 1 THEN DefaultHeaderStyle["bg_color"]
                    ELSE IF r % 2 = 0 THEN sc[1] ELSE sc[2]

\* C27: for N >= 1 steps, however many, the marker of every step and
\* every title, time-label and description region drawn for it have a
\* width and a height above zero.
C27_StepRegionsPositive ==
    LET slide == BuiltSlide("timeline")
        N == Len(ListOf("steps"))
    IN  slide # <<>> /\ N >= 1 =>
          \A k \in 1..N :
             /\ slide[MarkerAt(slide)[k]].w > 0
             /\ slide[MarkerAt(slide)[k]].h > 0
             /\ \A r \in StepRegions(slide, k) : r.w > 0 /\ r.h > 0

\* the positions in a slide of its card rectangles, in drawing order
CardAt(slide) ==
    LET IsCard(i) == slide[i].op = "rounded_rect" /\ slide[i].color2 # ""
    IN  SelectSeq([i \in 1..Len(slide) |-> i], IsCard)

\* the text boxes drawn for card k (from 1) of a slide: those drawn
\* after its rectangle and before the next card or the footer
CardRegions(slide, k) ==
    LET at == CardAt(slide)
        last == IF k < Len(at) THEN at[k + 1] - 1 ELSE Len(slide) - 3
    IN  {slide[j] : j \in {j \in at[k]..last : slide[j].op = "textbox"}}

\* C28: on a cards, stats or three-column slide every text box drawn for
\* a card lies inside the rectangle of that card, for every number of
\* items and every combination of optional fields.
C28_TextInsideCard ==
    \A t \in {"cards", "stats", "three_column"} :
       LET slide == BuiltSlide(t)
       IN  slide # <<>> =>
             \A k \in 1..Len(CardAt(slide)) :
                LET card == slide[CardAt(slide)[k]]
                IN  \A r \in CardRegions(slide, k) :
                       /\ r.x >= card.x /\ r.x + r.w <= card.x + card.w
                       /\ r.y >= card.y /\ r.y + r.h <= card.y + card.h

\* C29: without a workspace a call of any of the three generators returns
\* the error record at once and does nothing else: no directory and no
\* file is created, no block is rendered, nothing is saved, and the
\* caller's list and the theme registry are left as they were.
C29_NoWorkspace ==
    [][workspace = "" =>
         /\ \E p \in Procs :
               /\ pc[p] = "idle"
               /\ result'[p].out = "return" /\ ~result'[p].success
               /\ result'[p].error = "Workspace not configured"
         /\ files' = files /\ THEMES' = THEMES /\ args' = args
         /\ \A p \in Procs :
               /\ pc'[p] = "idle" /\ doc'[p] = <<>> /\ cursor'[p] = 0
               /\ saves'[p] = 0 /\ charts'[p] = <<>>]_vars

\* a call with a list of two blocks returned the error record of the
\* missing workspace
C29_Witness ==
    \E p \in Procs :
       /\ workspace = "" /\ Len(args[p]) = 2
       /\ result[p] = ErrorRecord("Workspace not configured")
       /\ files = FilesBefore

\* C30: for every tool name and every way the tool ends, the call of
\* execute_tool_call ends with the stop event set, by returning the
\* tool's result or an error record and never by raising, and the
\* spinner thread, once started, ends.
C30_SpinnerStops ==
    /\ [](tool.pc = "done" =>
            /\ tool.stop
            /\ tool.result.out = "return"
            /\ tool.result.value \in {"result", "Unknown tool",
                                       "Tool execution error"})
    /\ (tool.spinner = "running" ~> tool.spinner = "ended")

====
